---- MODULE Spec2Model ----
(***************************************************************************)
(* CreditTwin decision engine (src/Engine): find_twins, analyze_twins and  *)
(* make_decision over the Qdrant collection read through search_similar.   *)
(*                                                                         *)
(* Units.  Similarity scores are integers in thousandths (920 = 0.92).     *)
(* Amounts are whole dollars; an applicant's amount is a multiple of 100,   *)
(* so that its products with 0.7, 0.75, 0.8 and 1.3 are exact in binary    *)
(* floating point.  DTI is in                                              *)
(* hundredths of a percent point (1853 = 18.53).  A ratio computed by a    *)
(* Python division is kept as an unreduced fraction [num, den] and is      *)
(* compared with a literal by cross-multiplication.                        *)
(***************************************************************************)
EXTENDS Integers, Sequences, FiniteSets, TLC

None == -999999

\* ---------------------------------------------------------------- bounds
\* A ranking holds up to TOP_K + MaxOverflow points, so that the query limit
\* cuts some of them off.
MaxOverflow == 2

\* Rates handed to make_decision lie within RateSlack basis points of a
\* threshold of the policy.
RateSlack == 1
MaxCorpus == 3
MaxTail == 2
MaxBatch == 3
RebuildSize == 12
RebuildBatch == 5
MaxPad == 1

\* generate_synthetic_data(1000) is scaled to SyntheticCount cases; an
\* uploaded file holds at most MaxRows rows.
SyntheticCount == 12
MaxRows == 2

\* ------------------------------------------------------ program constants
TOP_K == 100
MIN_TWINS == 10
FRAUD_WINDOW == 20
FRAUD_MIN_FLAGS == 5
FRAUD_SIMILARITY_LIMIT == 999
TOP_TWINS == 5
DECAY_RANK == 10
DEFAULT_K == 50
VECTOR_SIZE == 50

\* -------------------------------------------------------------- fractions
Frac(n, d) == [num |-> n, den |-> d]

\* f >= p/q, f > p/q, f < p/q for a fraction f with positive denominator
FracGE(f, p, q) == f.num * q >= p * f.den
FracGT(f, p, q) == f.num * q > p * f.den
FracLT(f, p, q) == f.num * q < p * f.den

\* ---------------------------------------------------- Python dictionaries
Has(d, k) == k \in DOMAIN d

Get(d, k, default) == IF k \in DOMAIN d THEN d[k] ELSE default

\* Python truthiness of a number-or-None value
Truthy(v) == v # None /\ v # 0

\* x or 0
OrZero(v) == IF Truthy(v) THEN v ELSE 0

Min(a, b) == IF a <= b THEN a ELSE b

\* ------------------------------------------------------------- rounding
\* round(num/den, -2): nearest hundred, ties to the even hundred
RoundHundreds(num, den) ==
    LET q == num \div (100 * den)
        r == num - q * 100 * den
    IN  IF 2 * r < 100 * den THEN 100 * q
        ELSE IF 2 * r > 100 * den THEN 100 * (q + 1)
        ELSE IF q % 2 = 0 THEN 100 * q ELSE 100 * (q + 1)

\* round(dti, 1) for a DTI in hundredths; result in hundredths, ties to even
RoundTenths(h) ==
    LET q == h \div 10
        r == h - q * 10
    IN  IF 2 * r < 10 THEN 10 * q
        ELSE IF 2 * r > 10 THEN 10 * (q + 1)
        ELSE IF q % 2 = 0 THEN 10 * q ELSE 10 * (q + 1)

\* ------------------------------------------------------- stored payloads
\* The payload build_qdrant_vectors stores for one historical application.
Payload(outcome, amount, fico, dti, fraud, comeback) ==
    [application_id |-> 0,
     outcome |-> outcome,
     requested_amount |-> amount,
     fico |-> fico,
     dti |-> dti,
     is_fraud_suspect |-> fraud,
     is_comeback_story |-> comeback]

\* A stored point as the index ranks it for the query: payload and score.
Hit(score, payload) == [payload |-> payload, score |-> score]

Prototypes ==
    { Hit(920,  Payload("success",       7050,  720,  1853, FALSE, FALSE)),
      Hit(1000, Payload("success",       12000, 780,  1000, FALSE, FALSE)),
      Hit(920,  Payload("success",       7960,  705,  1210, TRUE,  FALSE)),
      Hit(920,  Payload("success",       8000,  700,  2247, FALSE, TRUE)),
      Hit(920,  Payload("default",       9000,  640,  3010, FALSE, FALSE)),
      Hit(920,  Payload("default",       8000,  None, None, FALSE, TRUE)),
      Hit(920,  Payload("late_payments", None,  660,  2500, FALSE, FALSE)),
      Hit(920,  Payload("rejected",      20000, 610,  3500, TRUE,  FALSE)),
      Hit(-200, Payload("unknown",       8000,  None, 1500, FALSE, FALSE)),
      Hit(500,  Payload("default",       8000,  690,  1825, FALSE, TRUE)) }

\* Run lengths around the limits the engine tests: the minimum cohort
\* (MIN_TWINS), the fraud window and count, and the query limit.
RunLens ==
    { 1, FRAUD_MIN_FLAGS - 1, FRAUD_MIN_FLAGS, MIN_TWINS - 1, MIN_TWINS,
      FRAUD_WINDOW - 4, FRAUD_WINDOW, TOP_K - 1, MaxOverflow }

Run(n, h) == [i \in 1..n |-> h]

\* application_id is the point's position in the ranking
Number(hits) ==
    [i \in 1..Len(hits) |->
        [hits[i] EXCEPT !.payload.application_id = i]]

\* The points of a collection in the order the index ranks them for the
\* query: at most two runs of equal points, scores non-increasing.
RankedLists ==
    { <<>> } \cup
    { Number(Run(n, h)) : n \in RunLens, h \in Prototypes } \cup
    { Number(Run(n1, h1) \o Run(n2, h2)) :
        <<n1, h1, n2, h2>> \in
          { t \in RunLens \X Prototypes \X RunLens \X Prototypes :
              /\ t[2].score >= t[4].score
              /\ t[2] # t[4]
              /\ t[1] + t[3] <= TOP_K + MaxOverflow } }

NoCollection == [exists |-> FALSE, points |-> <<>>]

Collections ==
    { NoCollection } \cup
    { [exists |-> TRUE, points |-> r] : r \in RankedLists }

\* ------------------------------------------------------------ applications
Applications ==
    { [requested_amount |-> 10000, nb_previous_loans |-> 0],
      [nb_previous_loans |-> 2],
      [requested_amount |-> None],
      [requested_amount |-> 0, nb_previous_loans |-> None] }

\* ----------------------------------------------------------- search_similar
NoFilters == [on |-> FALSE, gte10 |-> 0, lte10 |-> 0]

\* The range filter find_twins builds: 0.7 * amount .. 1.3 * amount, kept
\* in tenths of the amount.
InRange(payload, filters) ==
    /\ payload.requested_amount # None
    /\ 10 * payload.requested_amount >= filters.gte10
    /\ 10 * payload.requested_amount <= filters.lte10

Filtered(points, filters) ==
    SelectSeq(points, LAMBDA p : ~filters.on \/ InRange(p.payload, filters))

\* query_points(limit = top_k, query_filter): raises when the store cannot
\* be reached or the collection does not exist.
search_similar(coll, storeUp, top_k, filters) ==
    IF ~storeUp \/ ~coll.exists
    THEN [raised |-> TRUE, results |-> <<>>]
    ELSE LET matching == Filtered(coll.points, filters)
         IN  [raised |-> FALSE,
              results |-> [i \in 1..Min(top_k, Len(matching)) |->
                              Hit(matching[i].score, matching[i].payload)]]

\* ------------------------------------------------------------ analyze_twins
\* Every outcome other than default counted as a success.
CountOutcome_Loose(results, label) ==
    IF label = "success"
    THEN Cardinality({ i \in 1..Len(results) :
                         results[i].payload.outcome # "default" })
    ELSE Cardinality({ i \in 1..Len(results) :
                         results[i].payload.outcome = label })

CountOutcome(results, label) ==
    Cardinality({ i \in 1..Len(results) : results[i].payload.outcome = label })

\* sum(r["score"] for r in results[lo..hi]), by halving
RECURSIVE SumScores(_, _, _)
SumScores(results, lo, hi) ==
    IF lo > hi THEN 0
    ELSE IF lo = hi THEN results[lo].score
    ELSE LET mid == (lo + hi) \div 2
         IN  SumScores(results, lo, mid) + SumScores(results, mid + 1, hi)

TopTwin(r) ==
    [application_id |-> r.payload.application_id,
     similarity |-> r.score,
     outcome |-> r.payload.outcome,
     requested_amount |-> r.payload.requested_amount,
     fico |-> r.payload.fico,
     dti |-> r.payload.dti]

analyze_twins(results) ==
    LET total == Len(results)
    IN  IF total = 0
        THEN [total_twins |-> 0,
              success_count |-> 0,
              default_count |-> 0,
              late_count |-> 0,
              success_rate |-> Frac(0, 1),
              default_rate |-> Frac(0, 1),
              late_rate |-> Frac(0, 1),
              avg_similarity |-> Frac(0, 1),
              top_twins |-> <<>>]
        ELSE LET success == CountOutcome(results, "success")
                 default == CountOutcome(results, "default")
                 late == CountOutcome(results, "late_payments")
                 rejected == CountOutcome(results, "rejected")
             IN  [total_twins |-> total,
                  success_count |-> success,
                  default_count |-> default,
                  late_count |-> late,
                  rejected_count |-> rejected,
                  success_rate |-> Frac(success, total),
                  default_rate |-> Frac(default, total),
                  late_rate |-> Frac(late, total),
                  avg_similarity |-> Frac(SumScores(results, 1, total), total),
                  top_twins |->
                      [i \in 1..Min(TOP_TWINS, total) |-> TopTwin(results[i])]]

\* ------------------------------------------------------------ make_decision
TypeError == [exception |-> "TypeError"]

Raised(r) == Has(r, "exception")

\* Rule 1 with the default-rate bound not strict (<= 0.05).
Rule1_NonStrict(success_rate, default_rate) ==
    FracGE(success_rate, 99, 100) /\ ~FracGT(default_rate, 5, 100)

\* success_rate >= 0.99 and default_rate < 0.05
Rule1(success_rate, default_rate) ==
    FracGE(success_rate, 99, 100) /\ FracLT(default_rate, 5, 100)

\* success_rate >= 0.90 and default_rate < 0.10
Rule2(success_rate, default_rate) ==
    FracGE(success_rate, 90, 100) /\ FracLT(default_rate, 10, 100)

\* success_rate >= 0.85
Rule3(success_rate) == FracGE(success_rate, 85, 100)

\* The reduction taken at default_rate >= 0.05.
NeedsReduction_Inclusive(default_rate) == FracGE(default_rate, 5, 100)

\* default_rate > 0.05
NeedsReduction(default_rate) == FracGT(default_rate, 5, 100)

\* late_rate > 0.10
NeedsPremium(late_rate) == FracGT(late_rate, 10, 100)

\* requested_amount * 0.75
ReducedAmount(amount) == (3 * amount) \div 4

Conditions(reduce, premium) ==
    LET conditions ==
            (IF reduce THEN << "REDUCE_AMOUNT_25" >> ELSE <<>>) \o
            (IF premium THEN << "INTEREST_PREMIUM" >> ELSE <<>>)
    IN  IF conditions = <<>> THEN << "ENHANCED_MONITORING" >> ELSE conditions

make_decision(analysis, application) ==
    LET success_rate == analysis.success_rate
        default_rate == analysis.default_rate
    IN  IF Rule1(success_rate, default_rate)
        THEN [decision |-> "APPROVED",
              confidence |-> analysis.avg_similarity,
              reason |-> "EXCEPTIONAL_SUCCESS_RATE",
              conditions |-> <<>>,
              recommended_amount |-> Get(application, "requested_amount", None),
              analysis |-> analysis]
        ELSE IF Rule2(success_rate, default_rate)
        THEN LET reduce == NeedsReduction(default_rate)
                 premium == NeedsPremium(analysis.late_rate)
             IN  IF reduce /\ Get(application, "requested_amount", 0) = None
                 THEN TypeError
                 ELSE [decision |-> "APPROVED_WITH_CONDITIONS",
                       confidence |-> analysis.avg_similarity,
                       reason |-> "SOLID_WITH_MINOR_RISK",
                       conditions |-> Conditions(reduce, premium),
                       recommended_amount |->
                           IF reduce
                           THEN ReducedAmount(Get(application, "requested_amount", 0))
                           ELSE Get(application, "requested_amount", None),
                       analysis |-> analysis]
        ELSE IF Rule3(success_rate)
        THEN [decision |-> "MANUAL_REVIEW",
              confidence |-> analysis.avg_similarity,
              reason |-> "NEUTRAL_RANGE",
              analysis |-> analysis]
        ELSE [decision |-> "REJECTED",
              confidence |-> analysis.avg_similarity,
              reason |-> "INADEQUATE_SUCCESS_LIKELIHOOD",
              analysis |-> analysis]

\* ------------------------------------------------------------- explanation
LLMModes == { "unconfigured", "fails", "answers", "blank" }

\* None without an API key or when the call fails, else the stripped text of
\* the response, which is empty when the model answers with whitespace
get_llm_explanation(mode) ==
    CASE mode = "answers" -> "LLM_TEXT"
      [] mode = "blank" -> ""
      [] OTHER -> "None"

generate_friendly_explanation(decision_data) ==
    LET decision == Get(decision_data, "decision", "UNKNOWN")
        analysis == Get(decision_data, "analysis", [total_twins |-> 0])
        rejected_count == Get(analysis, "rejected_count", 0)
    IN  CASE decision = "APPROVED" ->
                IF rejected_count > 0
                THEN "TEMPLATE_APPROVED_FEW_REJECTED"
                ELSE "TEMPLATE_APPROVED"
          [] decision = "APPROVED_WITH_CONDITIONS" -> "TEMPLATE_APPROVED_WITH_CONDITIONS"
          [] decision = "REJECTED" -> "TEMPLATE_REJECTED"
          [] decision = "ANOMALY_DETECTED" -> "TEMPLATE_ANOMALY_DETECTED"
          [] decision = "MANUAL_REVIEW" -> "TEMPLATE_MANUAL_REVIEW"
          [] OTHER -> "TEMPLATE_DEFAULT"

\* The narrative taken as it comes, without the fallback.
Explanation_NoFallback(decision_data, mode) == get_llm_explanation(mode)

\* llm_explanation if llm_explanation else template_explanation: None and
\* the empty string are both falsy
Explanation(decision_data, mode) ==
    IF get_llm_explanation(mode) \notin { "None", "" }
    THEN get_llm_explanation(mode)
    ELSE generate_friendly_explanation(decision_data)

\* --------------------------------------------------------------- find_twins
Filters(application) ==
    LET amount == Get(application, "requested_amount", None)
    IN  IF Truthy(amount)
        THEN [on |-> TRUE, gte10 |-> 7 * amount, lte10 |-> 13 * amount]
        ELSE NoFilters

\* The except branch missing its effect: the points are used although the
\* search failed.
SearchResults_Uncaught(application, coll, storeUp) ==
    LET matching == Filtered(coll.points, Filters(application))
    IN  SubSeq(matching, 1, Min(TOP_K, Len(matching)))

\* results after the try/except around search_similar
SearchResults(application, coll, storeUp) ==
    LET found == search_similar(coll, storeUp, TOP_K, Filters(application))
    IN  IF found.raised THEN <<>> ELSE found.results

\* The volume check off by one (fewer than 9).
TooFewTwins_OffByOne(results) == Len(results) < MIN_TWINS - 1

TooFewTwins(results) == Len(results) < MIN_TWINS

\* The fraud flags counted over all results, not the first 20.
FraudFlags_NoWindow(results) ==
    Cardinality({ i \in 1..Len(results) : results[i].payload.is_fraud_suspect })

\* sum(fraud_flags) over results[:20]
FraudFlags(results) ==
    Cardinality({ i \in 1..Min(FRAUD_WINDOW, Len(results)) :
                    results[i].payload.is_fraud_suspect })

FraudSignal(results, analysis) ==
    \/ FraudFlags(results) >= FRAUD_MIN_FLAGS
    \/ FracGT(analysis.avg_similarity, FRAUD_SIMILARITY_LIMIT, 1)

Comebacks(results) ==
    SelectSeq(results, LAMBDA r : r.payload.is_comeback_story)

\* The last comeback neighbor taken, not the first.
BestComeback_Last(results) ==
    Comebacks(results)[Len(Comebacks(results))].payload

BestComeback(results) == Comebacks(results)[1].payload

Roadmap(best_comeback) ==
    [target_fico |-> best_comeback.fico,
     target_dti |-> RoundTenths(best_comeback.dti),
     message |-> [fico |-> best_comeback.fico, dti |-> best_comeback.dti]]

\* round(best_comeback.get("dti"), 1) and int(best_comeback.get("fico"))
RoadmapRaises(best_comeback) ==
    best_comeback.dti = None \/ best_comeback.fico = None

SuccessfulTwins(results) ==
    SelectSeq(results, LAMBDA r : r.payload.outcome = "success")

\* sum(r["payload"]["requested_amount"] or 0 for r in twins[lo..hi])
RECURSIVE SumAmounts(_, _, _)
SumAmounts(twins, lo, hi) ==
    IF lo > hi THEN 0
    ELSE IF lo = hi THEN OrZero(twins[lo].payload.requested_amount)
    ELSE LET mid == (lo + hi) \div 2
         IN  SumAmounts(twins, lo, mid) + SumAmounts(twins, mid + 1, hi)

\* The offer made also at exactly 80% of the requested amount.
SaferAmount_Inclusive(sum, count, requested) == 5 * sum <= 4 * requested * count

\* avg_safe_amount < requested_amount * 0.8, avg = sum / count
SaferAmount(sum, count, requested) == 5 * sum < 4 * requested * count

AlternativeOffer(sum, count) ==
    [type |-> "SAFER_AMOUNT",
     amount |-> RoundHundreds(sum, count),
     message |-> sum \div count]

\* The verdict compared for equality with "APPROVED" instead of the
\* substring test.
IsApprovedVerdict_Exact(verdict) == verdict = "APPROVED"

IsApprovedVerdict(verdict) ==
    verdict \in { "APPROVED", "APPROVED_WITH_CONDITIONS" }

NudgeApplies(application) == Get(application, "nb_previous_loans", 0) = 0

Nudge == [title |-> "Build Your Legacy", message |-> "UPGRADE_80_PERCENT"]

WithExplanation(decision_data, mode) ==
    decision_data @@ [explanation |-> Explanation(decision_data, mode)]

\* Steps 7 and 8 of find_twins, applied to the decision of make_decision.
Synthesize(decision, results, application) ==
    LET rejected == decision.decision = "REJECTED"
        hasComeback == rejected /\ Comebacks(results) # <<>>
        successful == SuccessfulTwins(results)
        hasSuccess == rejected /\ successful # <<>>
        sum == SumAmounts(successful, 1, Len(successful))
        requested == Get(application, "requested_amount", 0)
        offer == /\ hasSuccess
                 /\ requested # None
                 /\ SaferAmount(sum, Len(successful), requested)
        nudge == /\ IsApprovedVerdict(decision.decision)
                 /\ NudgeApplies(application)
    IN  IF hasComeback /\ RoadmapRaises(BestComeback(results)) THEN TypeError
        ELSE IF hasSuccess /\ requested = None THEN TypeError
        ELSE decision
             @@ (IF hasComeback
                 THEN [roadmap |-> Roadmap(BestComeback(results))]
                 ELSE <<>>)
             @@ (IF offer
                 THEN [alternative_offer |-> AlternativeOffer(sum, Len(successful))]
                 ELSE <<>>)
             @@ (IF nudge THEN [nudge |-> Nudge] ELSE <<>>)

find_twins(application, coll, storeUp, mode) ==
    LET results == SearchResults(application, coll, storeUp)
    IN  IF TooFewTwins(results)
        THEN WithExplanation(
                 [decision |-> "ANOMALY_DETECTED",
                  reason |-> "ONLY_N_SIMILAR_CASES",
                  twins_found |-> Len(results),
                  action |-> "MANUAL_REVIEW_REQUIRED",
                  confidence |-> Frac(0, 1)], mode)
        ELSE LET analysis == analyze_twins(results)
             IN  IF FraudSignal(results, analysis)
                 THEN WithExplanation(
                          [decision |-> "REJECTED",
                           confidence |-> Frac(1000, 1),
                           reason |-> "IDENTITY_ANOMALY",
                           is_fraud_suspect |-> TRUE,
                           analysis |-> analysis], mode)
                 ELSE LET decision == make_decision(analysis, application)
                      IN  IF Raised(decision) THEN decision
                          ELSE LET full == Synthesize(decision, results, application)
                               IN  IF Raised(full) THEN full
                                   ELSE WithExplanation(full, mode)

\* ------------------------------------------------------------------- state
\* collection: the Qdrant collection; pc, call, ret: the request in progress;
\* trace: the calls of interest made for it (engine entry, store client);
\* rebuild: the position of a running build_qdrant_vectors;
\* historical_cases: the corpus of the in-process engine.
\* upload_info: the file uploaded for import (main.py); importing: the
\* position of a running import_dataset.
VARIABLES collection, pc, call, ret, trace, rebuild, historical_cases,
          upload_info, importing

vars == << collection, pc, call, ret, trace, rebuild, historical_cases,
           upload_info, importing >>

NoUpload == [headers |-> <<>>, data |-> <<>>, filename |-> ""]

NoImport ==
    [pc |-> "off", data |-> <<>>, idx |-> 0, imported_cases |-> <<>>,
     skipped |-> 0]

NoRebuild == [pc |-> "off", uploaded |-> 0]

NoCall == [fn |-> "none"]

NoRet == [decision |-> "NONE"]

Init ==
    /\ collection \in Collections
    /\ pc = "idle"
    /\ call = NoCall
    /\ ret = NoRet
    /\ trace = <<>>
    /\ rebuild = NoRebuild
    /\ historical_cases = <<>>
    /\ upload_info = NoUpload
    /\ importing = NoImport

\* One evaluation request: find_twins(new_application).
FindTwins(application, storeUp, mode) ==
    /\ pc = "idle"
    /\ pc' = "done"
    /\ call' = [fn |-> "find_twins", application |-> application,
                storeUp |-> storeUp, mode |-> mode]
    /\ ret' = find_twins(application, collection, storeUp, mode)
    /\ trace' = << "find_twins", "QDRANT_CLIENT.query_points" >>
    /\ UNCHANGED << collection, rebuild, historical_cases,
                    upload_info, importing >>

\* analyze_twins applied to the first k points of the ranking.
AnalyzeTwins(k) ==
    /\ pc = "idle"
    /\ pc' = "done"
    /\ call' = [fn |-> "analyze_twins",
                results |-> SubSeq(collection.points, 1,
                                   Min(k, Len(collection.points)))]
    /\ ret' = analyze_twins(call'.results)
    /\ UNCHANGED << collection, trace, rebuild, historical_cases,
                    upload_info, importing >>

\* make_decision applied to a statistics object and an application.
MakeDecision(analysis, application) ==
    /\ pc = "idle"
    /\ pc' = "done"
    /\ call' = [fn |-> "make_decision", analysis |-> analysis,
                application |-> application]
    /\ ret' = make_decision(analysis, application)
    /\ UNCHANGED << collection, trace, rebuild, historical_cases,
                    upload_info, importing >>

\* The caller takes the result; the engine keeps nothing of the request.
Return ==
    /\ pc = "done"
    /\ pc' = "idle"
    /\ call' = NoCall
    /\ ret' = NoRet
    /\ trace' = <<>>
    /\ UNCHANGED << collection, rebuild, historical_cases,
                    upload_info, importing >>

Next ==
    \/ \E application \in Applications, storeUp \in BOOLEAN, mode \in LLMModes :
          FindTwins(application, storeUp, mode)
    \/ \E k \in { 0, TOP_TWINS, TOP_K } : AnalyzeTwins(k)
    \/ Return

Spec == Init /\ [][Next]_vars

\* ------------------------------------------- make_decision as a function
\* Rates in basis points around the thresholds of the policy.
Around(points) ==
    { p + d : p \in points, d \in (0 - RateSlack)..RateSlack }

Rate(bp) == Frac(bp, 10000)

SuccessRates == { Rate(bp) : bp \in { 0, 10000 } \cup Around({ 8500, 9000, 9900 }) }

DefaultRates == { Rate(bp) : bp \in { 0 } \cup Around({ 500, 1000 }) }

LateRates == { Rate(bp) : bp \in { 0 } \cup Around({ 1000 }) }

Analysis(success_rate, default_rate, late_rate) ==
    [total_twins |-> 10000,
     success_count |-> success_rate.num,
     default_count |-> default_rate.num,
     late_count |-> late_rate.num,
     rejected_count |-> 0,
     success_rate |-> success_rate,
     default_rate |-> default_rate,
     late_rate |-> late_rate,
     avg_similarity |-> Frac(920, 1),
     top_twins |-> <<>>]

InitDecision ==
    /\ collection = NoCollection
    /\ pc = "idle"
    /\ call = NoCall
    /\ ret = NoRet
    /\ trace = <<>>
    /\ rebuild = NoRebuild
    /\ historical_cases = <<>>
    /\ upload_info = NoUpload
    /\ importing = NoImport

NextDecision ==
    \/ \E sr \in SuccessRates, dr \in DefaultRates, lr \in LateRates,
          application \in Applications :
          MakeDecision(Analysis(sr, dr, lr), application)
    \/ Return

SpecDecision == InitDecision /\ [][NextDecision]_vars

\* ------------------------------------------------- in-process twin engine
\* services.py keeps the corpus in the module global historical_cases and
\* ranks it by cosine similarity against the applicant. A case is modelled
\* by its id and by the similarity of its feature vector to the applicant's,
\* in thousandths; features are not clamped, so a similarity can be negative.
Similarities == { -500, 0, 500, 900, 1000 }

NumberCases(sims) ==
    [i \in 1..Len(sims) |-> [id |-> i, similarity |-> sims[i]]]

\* every corpus of at most MaxCorpus cases, and corpora of two runs around
\* the rank the decay rate reads
Corpora ==
    { NumberCases(sims) :
        sims \in UNION { [1..n -> Similarities] : n \in 0..MaxCorpus } } \cup
    { NumberCases(Run(n1, s1) \o Run(n2, s2)) :
        n1 \in { DECAY_RANK - 2, DECAY_RANK - 1, DECAY_RANK },
        n2 \in 0..MaxTail, s1 \in Similarities, s2 \in Similarities }

Ks == { 1, 2, DECAY_RANK, DEFAULT_K }

\* cosine_similarity(applicant_vector, case_vector)
Similarity(case) == case.similarity

\* The case placed before the cases it ties with.
InsertBySimilarity_Unstable(sorted, x) ==
    LET n == Cardinality({ i \in 1..Len(sorted) : sorted[i][2] > x[2] })
    IN  SubSeq(sorted, 1, n) \o << x >> \o SubSeq(sorted, n + 1, Len(sorted))

\* list.sort(key = similarity, reverse = True) is stable: a pair goes behind
\* every pair already placed whose similarity is at least its own
InsertBySimilarity(sorted, x) ==
    LET n == Cardinality({ i \in 1..Len(sorted) : sorted[i][2] >= x[2] })
    IN  SubSeq(sorted, 1, n) \o << x >> \o SubSeq(sorted, n + 1, Len(sorted))

RECURSIVE SortBySimilarity(_)
SortBySimilarity(similarities) ==
    IF similarities = <<>> THEN <<>>
    ELSE InsertBySimilarity(
             SortBySimilarity(SubSeq(similarities, 1, Len(similarities) - 1)),
             similarities[Len(similarities)])

FinancialTwin(case, similarity) == [id |-> case.id, similarity |-> similarity]

find_financial_twins(cases, k) ==
    IF Len(cases) = 0 THEN <<>>
    ELSE LET similarities == [i \in 1..Len(cases) |->
                                 << cases[i], Similarity(cases[i]) >>]
             sorted == SortBySimilarity(similarities)
         IN  [i \in 1..Min(k, Len(sorted)) |->
                 FinancialTwin(sorted[i][1], sorted[i][2])]

RECURSIVE SumSimilarity(_)
SumSimilarity(twins) ==
    IF twins = <<>> THEN 0
    ELSE twins[1].similarity + SumSimilarity(Tail(twins))

\* The weighted sum returned as it is.
Clamp_Open(num, den) == Frac(num, den)

\* min(1.0, max(0.0, anomaly_score)) for anomaly_score = num / den, den > 0
Clamp(num, den) ==
    IF num < 0 THEN Frac(0, 1)
    ELSE IF num > den THEN Frac(1, 1)
    ELSE Frac(num, den)

\* Similarities are thousandths: with n twins, top similarity m, tenth
\* similarity t and sum s the score is
\*   0.4 * (1 - m/1000) + 0.3 * (m - t)/m + 0.3 * (1 - s/(1000 n))
\* over the common denominator 10000 * n * m (10000 * n without decay).
calculate_anomaly_score(twins) ==
    IF Len(twins) = 0 THEN Frac(1, 1)
    ELSE LET n == Len(twins)
             max_sim == twins[1].similarity
             sum == SumSimilarity(twins)
             decays == n >= DECAY_RANK /\ max_sim > 0
             tenth == twins[Min(DECAY_RANK, n)].similarity
             m == IF decays THEN max_sim ELSE 1
         IN  Clamp(4 * (1000 - max_sim) * n * m
                     + (IF decays THEN 3 * (max_sim - tenth) * 1000 * n ELSE 0)
                     + 3 * (1000 * n - sum) * m,
                   10000 * n * m)

set_historical_cases(cases) == cases

clear_historical_cases == <<>>

FindFinancialTwins(k) ==
    /\ pc = "idle"
    /\ pc' = "done"
    /\ call' = [fn |-> "find_financial_twins", k |-> k]
    /\ ret' = [twins |-> find_financial_twins(historical_cases, k)]
    /\ UNCHANGED << collection, trace, rebuild, historical_cases,
                    upload_info, importing >>

\* process_credit_application scores the twins find_financial_twins returned
CalculateAnomalyScore(k) ==
    /\ pc = "idle"
    /\ pc' = "done"
    /\ call' = [fn |-> "calculate_anomaly_score",
                twins |-> find_financial_twins(historical_cases, k)]
    /\ ret' = [anomaly_score |-> calculate_anomaly_score(call'.twins)]
    /\ UNCHANGED << collection, trace, rebuild, historical_cases,
                    upload_info, importing >>

SetHistoricalCases(cases) ==
    /\ pc = "idle"
    /\ historical_cases' = set_historical_cases(cases)
    /\ UNCHANGED << collection, pc, call, ret, trace, rebuild,
                    upload_info, importing >>

ClearHistoricalCases ==
    /\ pc = "idle"
    /\ historical_cases' = clear_historical_cases
    /\ UNCHANGED << collection, pc, call, ret, trace, rebuild,
                    upload_info, importing >>

\* on import the corpus is a generated one
InitTwins ==
    /\ collection = NoCollection
    /\ pc = "idle"
    /\ call = NoCall
    /\ ret = NoRet
    /\ trace = <<>>
    /\ rebuild = NoRebuild
    /\ historical_cases \in Corpora
    /\ upload_info = NoUpload
    /\ importing = NoImport

NextTwins ==
    \/ \E k \in Ks : FindFinancialTwins(k)
    \/ \E k \in Ks : CalculateAnomalyScore(k)
    \/ \E cases \in Corpora : SetHistoricalCases(cases)
    \/ ClearHistoricalCases
    \/ Return

SpecTwins == InitTwins /\ [][NextTwins]_vars

\* ------------------------------------------------------------ vector store
\* A vector is modelled by its length and by the score the index gives it
\* against the query vector.
Vector(len, score) == [len |-> len, score |-> score]

PayloadA == Payload("success", 8000, 700, 2247, FALSE, FALSE)

PayloadB == Payload("default", 9000, 640, 3010, FALSE, FALSE)

PointData(point_id, vector, payload) ==
    [id |-> point_id, vector |-> vector, payload |-> payload]

\* Points handed to the store: valid ones, two of them with the same id, one
\* with a negative id and one whose vector is one component short.
PointInputs ==
    { PointData(1, Vector(VECTOR_SIZE, 500), PayloadA),
      PointData(2, Vector(VECTOR_SIZE, 920), PayloadA),
      PointData(1, Vector(VECTOR_SIZE, 920), PayloadB),
      PointData(-1, Vector(VECTOR_SIZE, 920), PayloadA),
      PointData(3, Vector(VECTOR_SIZE - 1, 920), PayloadB) }

PointLists == UNION { [1..n -> PointInputs] : n \in 0..MaxBatch }

\* the outcome of a store function: what it raised, what it returned, the
\* collection it leaves and the client calls it made
Raise(kind, coll, calls) ==
    [raised |-> kind, result |-> None, store |-> coll, calls |-> calls]

Ok(result, coll, calls) ==
    [raised |-> "none", result |-> result, store |-> coll, calls |-> calls]

ValidPointId(point_id) == point_id >= 0

\* a payload that is not a dictionary, and isinstance(payload, dict)
NotADict == [python_type |-> "list"]

IsDict(payload) == ~Has(payload, "python_type")

\* Only a vector longer than VECTOR_SIZE refused.
ValidVector_AtMost(vector) == vector.len <= VECTOR_SIZE

ValidVector(vector) == vector.len = VECTOR_SIZE

PointStruct(d) == [id |-> d.id, payload |-> d.payload, score |-> d.vector.score]

\* QDRANT_CLIENT.upsert of one point: inserts it, or overwrites the point of
\* the same id; the list stays in the order the index ranks it
Put(points, p) ==
    LET rest == SelectSeq(points, LAMBDA q : q.id # p.id)
        n == Cardinality({ i \in 1..Len(rest) : rest[i].score >= p.score })
    IN  SubSeq(rest, 1, n) \o << p >> \o SubSeq(rest, n + 1, Len(rest))

RECURSIVE PutAll(_, _)
PutAll(points, new) ==
    IF new = <<>> THEN points
    ELSE PutAll(Put(points, new[1]), Tail(new))

upsert_vector(coll, storeUp, point_id, vector, payload) ==
    IF ~ValidPointId(point_id) \/ ~ValidVector(vector) \/ ~IsDict(payload)
    THEN Raise("ValueError", coll, <<>>)
    ELSE IF ~storeUp \/ ~coll.exists
    THEN Raise("Exception", coll, << "QDRANT_CLIENT.upsert" >>)
    ELSE Ok(TRUE,
            [coll EXCEPT !.points =
                Put(@, PointStruct(PointData(point_id, vector, payload)))],
            << "QDRANT_CLIENT.upsert" >>)

\* search_similar with its validation of the vector and of top_k
search_similar_checked(coll, storeUp, vector, top_k, filters) ==
    IF ~ValidVector(vector) \/ top_k < 1
    THEN Raise("ValueError", coll, <<>>)
    ELSE LET found == search_similar(coll, storeUp, top_k, filters)
         IN  IF found.raised
             THEN Raise("Exception", coll, << "QDRANT_CLIENT.query_points" >>)
             ELSE Ok(found.results, coll, << "QDRANT_CLIENT.query_points" >>)

\* every point of a chunk is validated before the chunk is uploaded
ValidChunk(batch) ==
    \A i \in 1..Len(batch) :
        ValidPointId(batch[i].id) /\ ValidVector(batch[i].vector)

\* the chunks from index i on; every exception, the ValueError of the
\* validation included, is re-raised as Exception
RECURSIVE UpsertChunks(_, _, _, _, _, _, _)
UpsertChunks(coll, storeUp, points_data, batch_size, i, total_uploaded, calls) ==
    IF i > Len(points_data) THEN Ok(total_uploaded, coll, calls)
    ELSE LET batch == SubSeq(points_data, i,
                             Min(i + batch_size - 1, Len(points_data)))
             points == [j \in 1..Len(batch) |-> PointStruct(batch[j])]
             upsert == Append(calls, "QDRANT_CLIENT.upsert")
         IN  IF ~ValidChunk(batch) THEN Raise("Exception", coll, calls)
             ELSE IF ~storeUp \/ ~coll.exists
             THEN Raise("Exception", coll, upsert)
             ELSE UpsertChunks([coll EXCEPT !.points = PutAll(@, points)],
                               storeUp, points_data, batch_size,
                               i + batch_size,
                               total_uploaded + Len(points), upsert)

\* The whole list validated and uploaded as one chunk.
batch_upsert_vectors_Unchunked(coll, storeUp, points_data, batch_size) ==
    IF points_data = <<>> THEN Ok(0, coll, <<>>)
    ELSE UpsertChunks(coll, storeUp, points_data, Len(points_data), 1, 0, <<>>)

batch_upsert_vectors(coll, storeUp, points_data, batch_size) ==
    IF points_data = <<>> THEN Ok(0, coll, <<>>)
    ELSE UpsertChunks(coll, storeUp, points_data, batch_size, 1, 0, <<>>)

\* True reported although nothing existed.
delete_collection_AlwaysTrue(coll, storeUp) ==
    IF ~storeUp
    THEN Raise("Exception", coll, << "QDRANT_CLIENT.get_collections" >>)
    ELSE Ok(TRUE, NoCollection,
            << "QDRANT_CLIENT.get_collections", "QDRANT_CLIENT.delete_collection" >>)

delete_collection(coll, storeUp) ==
    IF ~storeUp
    THEN Raise("Exception", coll, << "QDRANT_CLIENT.get_collections" >>)
    ELSE IF ~coll.exists
    THEN Ok(FALSE, coll, << "QDRANT_CLIENT.get_collections" >>)
    ELSE Ok(TRUE, NoCollection,
            << "QDRANT_CLIENT.get_collections", "QDRANT_CLIENT.delete_collection" >>)

create_collection_if_not_exists(coll, storeUp) ==
    IF ~storeUp
    THEN Raise("Exception", coll, << "QDRANT_CLIENT.get_collections" >>)
    ELSE IF coll.exists
    THEN Ok(FALSE, coll, << "QDRANT_CLIENT.get_collections" >>)
    ELSE Ok(TRUE, [exists |-> TRUE, points |-> <<>>],
            << "QDRANT_CLIENT.get_collections", "QDRANT_CLIENT.create_collection" >>)

\* One call of a store function: the caller gets what it raised or returned.
StoreCall(args, outcome) ==
    /\ pc' = "done"
    /\ call' = args
    /\ ret' = [raised |-> outcome.raised, result |-> outcome.result]
    /\ collection' = outcome.store
    /\ trace' = outcome.calls
    /\ UNCHANGED << rebuild, historical_cases, upload_info, importing >>

UpsertVector(storeUp, d) ==
    /\ pc = "idle"
    /\ StoreCall([fn |-> "upsert_vector", storeUp |-> storeUp, point |-> d],
              upsert_vector(collection, storeUp, d.id, d.vector, d.payload))

SearchSimilar(storeUp, vector, top_k) ==
    /\ pc = "idle"
    /\ StoreCall([fn |-> "search_similar", storeUp |-> storeUp,
                  vector |-> vector, top_k |-> top_k],
              search_similar_checked(collection, storeUp, vector, top_k, NoFilters))

BatchUpsertVectors(storeUp, points_data, batch_size) ==
    /\ pc = "idle"
    /\ StoreCall([fn |-> "batch_upsert_vectors", storeUp |-> storeUp,
                  points_data |-> points_data, batch_size |-> batch_size],
              batch_upsert_vectors(collection, storeUp, points_data, batch_size))

DeleteCollection(storeUp) ==
    /\ pc = "idle"
    /\ StoreCall([fn |-> "delete_collection", storeUp |-> storeUp],
              delete_collection(collection, storeUp))

CreateCollection(storeUp) ==
    /\ pc = "idle"
    /\ StoreCall([fn |-> "create_collection_if_not_exists", storeUp |-> storeUp],
              create_collection_if_not_exists(collection, storeUp))

\* the storage directory before anything was built
InitStore ==
    /\ collection = NoCollection
    /\ pc = "idle"
    /\ call = NoCall
    /\ ret = NoRet
    /\ trace = <<>>
    /\ rebuild = NoRebuild
    /\ historical_cases = <<>>
    /\ upload_info = NoUpload
    /\ importing = NoImport

NextStore ==
    \/ \E storeUp \in BOOLEAN, d \in PointInputs : UpsertVector(storeUp, d)
    \/ \E storeUp \in BOOLEAN :
          UpsertVector(storeUp, PointData(2, Vector(VECTOR_SIZE, 920), NotADict))
    \/ \E storeUp \in BOOLEAN,
          vector \in { Vector(VECTOR_SIZE, 1000), Vector(VECTOR_SIZE + 1, 1000) },
          top_k \in { 0, 1, TOP_K } :
          SearchSimilar(storeUp, vector, top_k)
    \/ \E storeUp \in BOOLEAN, points_data \in PointLists,
          batch_size \in 1..MaxBatch :
          BatchUpsertVectors(storeUp, points_data, batch_size)
    \/ \E storeUp \in BOOLEAN : DeleteCollection(storeUp)
    \/ \E storeUp \in BOOLEAN : CreateCollection(storeUp)
    \/ Return

SpecStore == InitStore /\ [][NextStore]_vars

\* ------------------------------------------------------ build_qdrant_vectors
\* The applications the build reads, vectorized: the first MIN_TWINS repaid,
\* the others defaulted. The build uploads them in chunks of 1000; the model
\* scales corpus and chunk to RebuildSize and RebuildBatch.
NewPointsData ==
    [i \in 1..RebuildSize |->
        PointData(i, Vector(VECTOR_SIZE, 920),
                  IF i <= MIN_TWINS THEN PayloadA ELSE PayloadB)]

\* the collection a completed build of points_data leaves
Built(points_data) ==
    [exists |-> TRUE,
     points |-> PutAll(<<>>, [i \in 1..Len(points_data) |->
                                 PointStruct(points_data[i])])]

\* the corpus of the previous build: the same applications, all defaulted
OldPointsData ==
    [i \in 1..RebuildSize |->
        PointData(i, Vector(VECTOR_SIZE, 920), PayloadB)]

\* python buildvector_store.py is started
StartRebuild ==
    /\ rebuild.pc = "off"
    /\ rebuild' = [pc |-> "delete", uploaded |-> 0]
    /\ UNCHANGED << collection, pc, call, ret, trace, historical_cases,
                    upload_info, importing >>

\* if reset_collection: delete_collection()
RebuildDelete ==
    /\ rebuild.pc = "delete"
    /\ collection' = delete_collection(collection, TRUE).store
    /\ rebuild' = [rebuild EXCEPT !.pc = "create"]
    /\ UNCHANGED << pc, call, ret, trace, historical_cases,
                    upload_info, importing >>

\* create_collection_if_not_exists()
RebuildCreate ==
    /\ rebuild.pc = "create"
    /\ collection' = create_collection_if_not_exists(collection, TRUE).store
    /\ rebuild' = [rebuild EXCEPT !.pc = "upload"]
    /\ UNCHANGED << pc, call, ret, trace, historical_cases,
                    upload_info, importing >>

\* one turn of the loop of batch_upsert_vectors: the next chunk is uploaded
RebuildUpload ==
    /\ rebuild.pc = "upload"
    /\ LET batch == SubSeq(NewPointsData, rebuild.uploaded + 1,
                           Min(rebuild.uploaded + RebuildBatch, Len(NewPointsData)))
       IN  /\ ValidChunk(batch)
           /\ collection' =
                [collection EXCEPT !.points =
                    PutAll(@, [j \in 1..Len(batch) |-> PointStruct(batch[j])])]
           /\ rebuild' =
                [pc |-> IF rebuild.uploaded + Len(batch) >= Len(NewPointsData)
                        THEN "done" ELSE "upload",
                 uploaded |-> rebuild.uploaded + Len(batch)]
    /\ UNCHANGED << pc, call, ret, trace, historical_cases,
                    upload_info, importing >>

\* the server answers requests over the collection of the previous build
InitRebuild ==
    /\ collection = Built(OldPointsData)
    /\ pc = "idle"
    /\ call = NoCall
    /\ ret = NoRet
    /\ trace = <<>>
    /\ rebuild = NoRebuild
    /\ historical_cases = <<>>
    /\ upload_info = NoUpload
    /\ importing = NoImport

NextRebuild ==
    \/ StartRebuild
    \/ RebuildDelete
    \/ RebuildCreate
    \/ RebuildUpload
    \/ \E application \in Applications, storeUp \in BOOLEAN, mode \in LLMModes :
          FindTwins(application, storeUp, mode)
    \/ Return

SpecRebuild == InitRebuild /\ [][NextRebuild]_vars

\* ------------------------------------------------------------ /api/evaluate
RequiredFields ==
    << "requested_amount", "annual_income_snapshot", "dti_snapshot",
       "fico_snapshot" >>

\* request.json of a body that is the JSON literal null
JsonNull == [python_type |-> "NoneType"]

FieldValues ==
    [requested_amount |-> 10000, annual_income_snapshot |-> 60000,
     dti_snapshot |-> 1850, fico_snapshot |-> 720, nb_previous_loans |-> 0]

\* JSON objects holding any subset of the required fields, with and without
\* an optional field, some with a null amount; and the null body
RequestBodies ==
    { [f \in fields |-> FieldValues[f]] :
        fields \in SUBSET { "requested_amount", "annual_income_snapshot",
                            "dti_snapshot", "fico_snapshot",
                            "nb_previous_loans" } } \cup
    { [f \in fields |-> IF f = "requested_amount" THEN None ELSE FieldValues[f]] :
        fields \in { s \in SUBSET { "requested_amount", "annual_income_snapshot",
                                    "dti_snapshot", "fico_snapshot" } :
                       "requested_amount" \in s } } \cup
    { JsonNull }

\* [field for field in required if field not in new_app]
MissingFields(new_app) ==
    SelectSeq(RequiredFields, LAMBDA field : ~Has(new_app, field))

Response(status, body, calls) == [status |-> status, body |-> body, calls |-> calls]

InternalServerError(details, calls) ==
    Response(500, [error |-> "Internal server error", details |-> details], calls)

\* 'field not in None' raises TypeError inside the try block
evaluate_application(new_app, coll, storeUp, mode) ==
    IF new_app = JsonNull
    THEN InternalServerError("TypeError", <<>>)
    ELSE IF MissingFields(new_app) # <<>>
    THEN Response(400, [error |-> "Missing required fields",
                        missing_fields |-> MissingFields(new_app),
                        required_fields |-> RequiredFields], <<>>)
    ELSE LET decision == find_twins(new_app, coll, storeUp, mode)
             calls == << "find_twins", "QDRANT_CLIENT.query_points" >>
         IN  IF Raised(decision)
             THEN InternalServerError(decision.exception, calls)
             ELSE Response(200, decision, calls)

EvaluateApplication(new_app, storeUp, mode) ==
    /\ pc = "idle"
    /\ pc' = "done"
    /\ call' = [fn |-> "evaluate_application", new_app |-> new_app,
                storeUp |-> storeUp, mode |-> mode]
    /\ LET response == evaluate_application(new_app, collection, storeUp, mode)
       IN  /\ ret' = [status |-> response.status, body |-> response.body]
           /\ trace' = response.calls
    /\ UNCHANGED << collection, rebuild, historical_cases,
                    upload_info, importing >>

\* a corpus whose policy verdict is REJECTED although two twins repaid
MixedPointsData ==
    [i \in 1..RebuildSize |->
        PointData(i, Vector(VECTOR_SIZE, 920),
                  IF i <= 2 THEN PayloadA ELSE PayloadB)]

InitApi ==
    /\ collection \in { NoCollection, Built(OldPointsData),
                        Built(NewPointsData), Built(MixedPointsData) }
    /\ pc = "idle"
    /\ call = NoCall
    /\ ret = NoRet
    /\ trace = <<>>
    /\ rebuild = NoRebuild
    /\ historical_cases = <<>>
    /\ upload_info = NoUpload
    /\ importing = NoImport

NextApi ==
    \/ \E new_app \in RequestBodies, storeUp \in BOOLEAN, mode \in LLMModes :
          EvaluateApplication(new_app, storeUp, mode)
    \/ Return

SpecApi == InitApi /\ [][NextApi]_vars

\* --------------------------------------------------------------- embeddings
\* Entries of a vector are kept as unreduced fractions; log1p(x) / 15 is kept
\* symbolically as [log1p |-> x, den |-> 15].
Log1pOver15(x) == [log1p |-> x, den |-> 15]

\* min((application.get(key) or 0) / den, 1)
Capped(application, key, den) ==
    LET v == OrZero(Get(application, key, None))
    IN  IF v >= den THEN Frac(1, 1) ELSE Frac(v, den)

\* 1.0 if application.get(key) == value else 0.0
OneHot(application, key, value) ==
    IF Has(application, key) /\ application[key] = value
    THEN Frac(1, 1) ELSE Frac(0, 1)

\* grade.strip() for the grades of the model
Strip(grade) == IF grade = "B " THEN "B" ELSE grade

encode_grade(application) ==
    LET grade == Get(application, "grade", "")
    IN  IF grade = "" THEN Frac(50, 100)
        ELSE CASE Strip(grade) = "A" -> Frac(100, 100)
               [] Strip(grade) = "B" -> Frac(85, 100)
               [] Strip(grade) = "C" -> Frac(70, 100)
               [] Strip(grade) = "D" -> Frac(55, 100)
               [] Strip(grade) = "E" -> Frac(40, 100)
               [] Strip(grade) = "F" -> Frac(25, 100)
               [] Strip(grade) = "G" -> Frac(10, 100)
               [] OTHER -> Frac(50, 100)

\* the continuous and categorical features; dti and utilization are in
\* hundredths of a percent point, so x / 100 is x / 10000
Features(application) ==
    << Log1pOver15(OrZero(Get(application, "requested_amount", None))),
       Log1pOver15(OrZero(Get(application, "annual_income_snapshot", None))),
       Capped(application, "dti_snapshot", 10000),
       Capped(application, "payment_to_income_ratio", 1),
       Capped(application, "loan_to_income_ratio", 1),
       Capped(application, "revolving_utilization_snapshot", 10000),
       Frac(IF Truthy(Get(application, "fico_snapshot", None))
            THEN application.fico_snapshot ELSE 650, 850),
       Capped(application, "credit_history_length_snapshot", 50),
       Capped(application, "nb_previous_loans", 10),
       Capped(application, "open_accounts", 30),
       Capped(application, "total_accounts", 50),
       Capped(application, "delinquencies_2y", 10),
       Capped(application, "inquiries_6m", 10),
       Capped(application, "public_records", 5),
       OneHot(application, "term", " 36 months"),
       OneHot(application, "term", " 60 months"),
       encode_grade(application),
       OneHot(application, "loan_purpose", "debt_consolidation"),
       OneHot(application, "loan_purpose", "credit_card"),
       OneHot(application, "loan_purpose", "home_improvement"),
       OneHot(application, "loan_purpose", "other"),
       OneHot(application, "loan_purpose", "major_purchase") >>

\* The features returned unpadded.
PadTo_Unpadded(vector, vector_size) == vector

\* while len(vector) < vector_size: vector.append(0.0)
PadTo(vector, vector_size) ==
    IF Len(vector) >= vector_size THEN vector
    ELSE vector \o [i \in 1..(vector_size - Len(vector)) |-> Frac(0, 1)]

\* vector[:vector_size] for vector_size >= 0
create_application_vector(application, vector_size) ==
    LET vector == PadTo(Features(application), vector_size)
    IN  SubSeq(vector, 1, Min(vector_size, Len(vector)))

\* Records with absent, null and present fields.
OptionalField(key, values) ==
    { <<>> } \cup { [k \in { key } |-> v] : v \in values }

EncodedApplications ==
    { a @@ f @@ d @@ g @@ p :
        a \in OptionalField("requested_amount", { None, 10000 }),
        f \in OptionalField("fico_snapshot", { None, 720 }),
        d \in OptionalField("dti_snapshot", { 1850, 15000 }),
        g \in OptionalField("grade", { "", "A", "B ", "Z" }),
        p \in OptionalField("loan_purpose", { "other" }) }

VectorSizes == { 0, 1, 21, 22, 23, VECTOR_SIZE } \cup (VECTOR_SIZE + 1)..(VECTOR_SIZE + MaxPad)

CreateApplicationVector(application, vector_size) ==
    /\ pc = "idle"
    /\ pc' = "done"
    /\ call' = [fn |-> "create_application_vector",
                application |-> application, vector_size |-> vector_size]
    /\ ret' = [vector |-> create_application_vector(application, vector_size)]
    /\ UNCHANGED << collection, trace, rebuild, historical_cases,
                    upload_info, importing >>

InitEncode ==
    /\ collection = NoCollection
    /\ pc = "idle"
    /\ call = NoCall
    /\ ret = NoRet
    /\ trace = <<>>
    /\ rebuild = NoRebuild
    /\ historical_cases = <<>>
    /\ upload_info = NoUpload
    /\ importing = NoImport

NextEncode ==
    \/ \E application \in EncodedApplications, vector_size \in VectorSizes :
          CreateApplicationVector(application, vector_size)
    \/ Return

SpecEncode == InitEncode /\ [][NextEncode]_vars

\* ------------------------------------------------- corpus of the twin engine
\* The backend (UI/credit-decision-twin/backend) keeps the corpus in the
\* module global historical_cases. A row of an uploaded file is modelled by
\* the similarity its case has to the applicant and by whether
\* convert_row_to_case raises on it.
Rows == { [similarity |-> 1000, raises |-> FALSE],
          [similarity |-> 0, raises |-> TRUE] }

Datasets == UNION { [1..n -> Rows] : n \in 0..MaxRows }

\* random.randint draws the features of a synthetic case: its similarity
\* follows one of two patterns
SyntheticPatterns == { << 500 >>, << 900, 500 >> }

generate_synthetic_data(count, pattern) ==
    NumberCases([i \in 1..count |-> pattern[((i - 1) % Len(pattern)) + 1]])

get_case_count(cases) == Len(cases)

\* 'id': f'IMPORT_{str(idx + 1).zfill(6)}'
convert_row_to_case(row, idx) ==
    IF row.raises THEN TypeError
    ELSE [id |-> idx + 1, similarity |-> row.similarity]

\* The case appended to the module global instead of the local list.
ImportRow_InPlace(historical, imp, row) ==
    LET case == convert_row_to_case(row, imp.idx)
        cases == IF Raised(case) THEN imp.imported_cases
                 ELSE Append(imp.imported_cases, case)
    IN  [historical_cases |-> cases,
         importing |-> [imp EXCEPT !.idx = @ + 1, !.imported_cases = cases]]

\* One turn of the loop of import_dataset: the case goes to the local list
\* imported_cases, a row that raises is counted in skipped; the module
\* global is not touched.
ImportRow(historical, imp, row) ==
    LET case == convert_row_to_case(row, imp.idx)
    IN  [historical_cases |-> historical,
         importing |->
             IF Raised(case)
             THEN [imp EXCEPT !.idx = @ + 1, !.skipped = @ + 1]
             ELSE [imp EXCEPT !.idx = @ + 1,
                              !.imported_cases = Append(@, case)]]

StartImport(data) ==
    [pc |-> "rows", data |-> data, idx |-> 0, imported_cases |-> <<>>,
     skipped |-> 0]

\* process_credit_application: the twins and the anomaly score computed
\* from them
CreditDecisionResponse(twins) ==
    [status_code |-> 200, twins |-> twins,
     anomaly_score |-> calculate_anomaly_score(twins)]

HTTPException(status_code, detail) ==
    [status_code |-> status_code, detail |-> detail]

\* ---- requests served by concurrent threads, one step per read or write of
\* ---- the module global (the event loop runs a handler without a break,
\* ---- which is one of these interleavings)

\* process_application up to the call of process_credit_application
ProcessApplicationGuard ==
    /\ pc = "idle"
    /\ call' = [fn |-> "process_application", k |-> DEFAULT_K]
    /\ IF get_case_count(historical_cases) = 0
       THEN /\ pc' = "done"
            /\ ret' = HTTPException(400, "No historical data loaded")
       ELSE /\ pc' = "process_credit_application"
            /\ ret' = NoRet
    /\ UNCHANGED << collection, trace, rebuild, historical_cases,
                    upload_info, importing >>

\* find_financial_twins: if len(historical_cases) == 0: return []
FindTwinsLenCheck ==
    /\ pc = "process_credit_application"
    /\ IF Len(historical_cases) = 0
       THEN /\ pc' = "done"
            /\ ret' = CreditDecisionResponse(<<>>)
       ELSE /\ pc' = "find_financial_twins"
            /\ ret' = NoRet
    /\ UNCHANGED << collection, call, trace, rebuild, historical_cases,
                    upload_info, importing >>

\* find_financial_twins: for case in historical_cases reads the global once
\* and iterates the list it found
FindTwinsLoop ==
    /\ pc = "find_financial_twins"
    /\ pc' = "done"
    /\ ret' = CreditDecisionResponse(
                  find_financial_twins(historical_cases, call.k))
    /\ UNCHANGED << collection, call, trace, rebuild, historical_cases,
                    upload_info, importing >>
\* df.columns.tolist() and df.to_dict('records') of the parsed file
ColumnNames == << "age", "credit_score", "income", "loan_amount", "outcome" >>

Uploaded(filename, rows) ==
    [headers |-> ColumnNames, data |-> rows, filename |-> filename]

\* ColumnMapping: the five required fields are strings, possibly empty
RequiredMappings ==
    { "age", "credit_score", "income", "loan_amount", "outcome" }

Mappings ==
    { m \in [RequiredMappings -> { "", "column" }] :
        Cardinality({ f \in RequiredMappings : m[f] = "" }) <= 1 }

\* all([mappings.age, mappings.credit_score, ...])
AllMapped(mappings) == \A f \in RequiredMappings : mappings[f] # ""

\* The upload recognised by the name of the file, not by its rows.
NoFileUploaded_ByName(info) == info.filename = ""

\* not upload_info["data"]
NoFileUploaded(info) == info.data = <<>>

\* upload_file by another client, for a file that parses
UploadFileStep(rows) ==
    /\ upload_info' = Uploaded("cases.csv", rows)
    /\ UNCHANGED << collection, pc, call, ret, trace, rebuild,
                    historical_cases, importing >>

\* import_uploaded_dataset up to the loop of import_dataset, which keeps the
\* list upload_info["data"] named at the call; a refused request changes
\* nothing
ImportDatasetBegin(mappings) ==
    /\ importing.pc = "off"
    /\ ~NoFileUploaded(upload_info)
    /\ AllMapped(mappings)
    /\ importing' = StartImport(upload_info.data)
    /\ UNCHANGED << collection, pc, call, ret, trace, rebuild,
                    historical_cases, upload_info >>

ImportDatasetRow ==
    /\ importing.pc = "rows"
    /\ importing.idx < Len(importing.data)
    /\ LET s == ImportRow(historical_cases, importing,
                          importing.data[importing.idx + 1])
       IN  /\ historical_cases' = s.historical_cases
           /\ importing' = s.importing
    /\ UNCHANGED << collection, pc, call, ret, trace, rebuild, upload_info >>

\* set_historical_cases(imported_cases), after the last row
ImportDatasetEnd ==
    /\ importing.pc = "rows"
    /\ importing.idx = Len(importing.data)
    /\ historical_cases' = set_historical_cases(importing.imported_cases)
    /\ importing' = NoImport
    /\ UNCHANGED << collection, pc, call, ret, trace, rebuild, upload_info >>

ClearDataStep ==
    /\ historical_cases' = clear_historical_cases
    /\ upload_info' = NoUpload
    /\ UNCHANGED << collection, pc, call, ret, trace, rebuild, importing >>

ResetDataStep(pattern) ==
    /\ historical_cases' =
           set_historical_cases(
               generate_synthetic_data(SyntheticCount, pattern))
    /\ upload_info' = NoUpload
    /\ UNCHANGED << collection, pc, call, ret, trace, rebuild, importing >>

InitCorpus ==
    /\ collection = NoCollection
    /\ pc = "idle"
    /\ call = NoCall
    /\ ret = NoRet
    /\ trace = <<>>
    /\ rebuild = NoRebuild
    /\ historical_cases \in
           { generate_synthetic_data(SyntheticCount, pattern) :
               pattern \in SyntheticPatterns }
    /\ upload_info = NoUpload
    /\ importing = NoImport

NextCorpus ==
    \/ ProcessApplicationGuard
    \/ FindTwinsLenCheck
    \/ FindTwinsLoop
    \/ Return
    \/ \E rows \in Datasets : UploadFileStep(rows)
    \/ \E mappings \in Mappings : ImportDatasetBegin(mappings)
    \/ ImportDatasetRow
    \/ ImportDatasetEnd
    \/ ClearDataStep
    \/ \E pattern \in SyntheticPatterns : ResetDataStep(pattern)

SpecCorpus == InitCorpus /\ [][NextCorpus]_vars

\* ---------------------------------------------------------- map_categorical
\* The categories of the in-process engine (services.py). A Python string is
\* modelled as the sequence of its characters, so that lower(), replace()
\* and the substring test are computed.
\* ['full-time', 'part-time', 'self-employed', 'contractor', 'retired']
EMPLOYMENT_TYPES ==
    << << "f", "u", "l", "l", "-", "t", "i", "m", "e" >>,
       << "p", "a", "r", "t", "-", "t", "i", "m", "e" >>,
       << "s", "e", "l", "f", "-", "e", "m", "p", "l", "o", "y", "e", "d" >>,
       << "c", "o", "n", "t", "r", "a", "c", "t", "o", "r" >>,
       << "r", "e", "t", "i", "r", "e", "d" >> >>

\* ['technology', 'healthcare', 'finance', 'retail', 'manufacturing',
\* 'education', 'government', 'other']
SECTORS ==
    << << "t", "e", "c", "h", "n", "o", "l", "o", "g", "y" >>,
       << "h", "e", "a", "l", "t", "h", "c", "a", "r", "e" >>,
       << "f", "i", "n", "a", "n", "c", "e" >>,
       << "r", "e", "t", "a", "i", "l" >>,
       << "m", "a", "n", "u", "f", "a", "c", "t", "u", "r", "i", "n", "g" >>,
       << "e", "d", "u", "c", "a", "t", "i", "o", "n" >>,
       << "g", "o", "v", "e", "r", "n", "m", "e", "n", "t" >>,
       << "o", "t", "h", "e", "r" >> >>

\* ['home', 'auto', 'personal', 'business', 'education',
\* 'debt-consolidation']
PURPOSES ==
    << << "h", "o", "m", "e" >>,
       << "a", "u", "t", "o" >>,
       << "p", "e", "r", "s", "o", "n", "a", "l" >>,
       << "b", "u", "s", "i", "n", "e", "s", "s" >>,
       << "e", "d", "u", "c", "a", "t", "i", "o", "n" >>,
       << "d", "e", "b", "t", "-", "c", "o", "n", "s", "o", "l", "i", "d", "a", "t", "i", "o", "n" >> >>

\* ['northeast', 'southeast', 'midwest', 'southwest', 'west']
REGIONS ==
    << << "n", "o", "r", "t", "h", "e", "a", "s", "t" >>,
       << "s", "o", "u", "t", "h", "e", "a", "s", "t" >>,
       << "m", "i", "d", "w", "e", "s", "t" >>,
       << "s", "o", "u", "t", "h", "w", "e", "s", "t" >>,
       << "w", "e", "s", "t" >> >>

OptionLists == { EMPLOYMENT_TYPES, SECTORS, PURPOSES, REGIONS }

\* None where a string is expected: its one entry is not a character
NoString == << "None" >>

Range(seq) == { seq[i] : i \in 1..Len(seq) }

\* values of a category field: every option of every list, spellings the
\* cleaning is written for, a value without a match, the empty string and
\* None
CategoryValues ==
    UNION { Range(options) : options \in OptionLists } \cup
    { << "F", "u", "l", "l", " ", "T", "i", "m", "e" >>,
      << "S", "E", "L", "F", "_", "E", "M", "P", "L", "O", "Y", "E", "D" >>,
      << "t", "e", "c", "h" >>,
      << "N", "o", "r", "t", "h", "-", "E", "a", "s", "t" >>,
      << "u", "n", "k", "n", "o", "w", "n" >>,
      << "-" >>,
      <<>>,
      NoString }

UpperCase ==
    << "A", "B", "C", "D", "E", "F", "G", "H", "I", "J", "K", "L", "M",
       "N", "O", "P", "Q", "R", "S", "T", "U", "V", "W", "X", "Y", "Z" >>

LowerCase ==
    << "a", "b", "c", "d", "e", "f", "g", "h", "i", "j", "k", "l", "m",
       "n", "o", "p", "q", "r", "s", "t", "u", "v", "w", "x", "y", "z" >>

\* str.lower()
Lower(s) ==
    [i \in 1..Len(s) |->
        IF \E n \in 1..26 : UpperCase[n] = s[i]
        THEN LowerCase[CHOOSE n \in 1..26 : UpperCase[n] = s[i]]
        ELSE s[i]]

\* .lower().replace('-', '').replace('_', '').replace(' ', '')
Clean(s) == SelectSeq(Lower(s), LAMBDA c : c \notin { "-", "_", " " })

\* a in b, for strings
IsIn(a, b) ==
    \E i \in 0..(Len(b) - Len(a)) : SubSeq(b, i + 1, i + Len(a)) = a

Matches(lower_val, opt_clean) ==
    \/ lower_val = opt_clean
    \/ IsIn(opt_clean, lower_val)
    \/ IsIn(lower_val, opt_clean)

map_categorical(value, valid_options) ==
    IF value = NoString \/ value = <<>>
    THEN valid_options[Len(valid_options)]
    ELSE LET lower_val == Clean(value)
             hits == { i \in 1..Len(valid_options) :
                         Matches(lower_val, Clean(valid_options[i])) }
         IN  IF hits = {}
             THEN valid_options[Len(valid_options)]
             ELSE valid_options[CHOOSE i \in hits : \A j \in hits : i <= j]

\* list.index(x): the first position of x, from 0
Index(list, x) ==
    (CHOOSE i \in 1..Len(list) :
         list[i] = x /\ \A j \in 1..(i - 1) : list[j] # x) - 1

\* A categorical entry of create_feature_vector:
\* OPTIONS.index(map_categorical(applicant.get(field), OPTIONS)) / len(OPTIONS)
CategoryEntry(value, valid_options) ==
    Frac(Index(valid_options, map_categorical(value, valid_options)),
         Len(valid_options))

MapCategorical(value, valid_options) ==
    /\ pc = "idle"
    /\ pc' = "done"
    /\ call' = [fn |-> "map_categorical", value |-> value,
                valid_options |-> valid_options]
    /\ ret' = [option |-> map_categorical(value, valid_options),
               entry |-> CategoryEntry(value, valid_options)]
    /\ UNCHANGED << collection, trace, rebuild, historical_cases,
                    upload_info, importing >>

InitCategorical ==
    /\ collection = NoCollection
    /\ pc = "idle"
    /\ call = NoCall
    /\ ret = NoRet
    /\ trace = <<>>
    /\ rebuild = NoRebuild
    /\ historical_cases = <<>>
    /\ upload_info = NoUpload
    /\ importing = NoImport

NextCategorical ==
    \/ \E value \in CategoryValues, valid_options \in OptionLists :
           MapCategorical(value, valid_options)
    \/ Return

SpecCategorical == InitCategorical /\ [][NextCategorical]_vars

\* ------------------------------------------------- find_twins, small loans
\* find_twins on requests of a few hundred dollars at most, where the
\* rounding of the safer amount to the nearest hundred is coarse: cohorts of
\* a few repaid loans ranked before nine or ten defaulted ones.
SmallAmounts == { 45, 75, 190, 750 }

SmallApplications ==
    { [requested_amount |-> amount, nb_previous_loans |-> 0] :
        amount \in { 60, 100, 250, 1000 } }

SmallCollections ==
    { [exists |-> TRUE,
       points |-> Number(
           Run(n1, Hit(920, Payload("success", a1, 720, 1853, FALSE, FALSE)))
           \o Run(n2, Hit(900, Payload("default", a2, 640, 3010, FALSE, FALSE))))] :
        n1 \in { 1, 2 }, n2 \in { MIN_TWINS - 1, MIN_TWINS },
        a1 \in SmallAmounts, a2 \in SmallAmounts }

InitOffer ==
    /\ collection \in SmallCollections
    /\ pc = "idle"
    /\ call = NoCall
    /\ ret = NoRet
    /\ trace = <<>>
    /\ rebuild = NoRebuild
    /\ historical_cases = <<>>
    /\ upload_info = NoUpload
    /\ importing = NoImport

NextOffer ==
    \/ \E application \in SmallApplications, mode \in LLMModes :
           FindTwins(application, TRUE, mode)
    \/ Return

SpecOffer == InitOffer /\ [][NextOffer]_vars

\* ------------------------------------------------------- backend requests
\* The handlers of main.py as the event loop runs them: each is an async
\* function that never awaits between its reads and writes of the corpus and
\* of upload_info, so one request is one step.

\* import_dataset(data, mappings): the whole loop, then the corpus replaced
RECURSIVE ImportRows(_, _)
ImportRows(historical, imp) ==
    IF imp.idx = Len(imp.data)
    THEN [historical_cases |-> historical, importing |-> imp]
    ELSE LET s == ImportRow(historical, imp, imp.data[imp.idx + 1])
         IN  ImportRows(s.historical_cases, s.importing)

import_dataset(historical, data) ==
    LET s == ImportRows(historical, StartImport(data))
    IN  [historical_cases |-> set_historical_cases(s.importing.imported_cases),
         imported_count |-> Len(s.importing.imported_cases),
         skipped |-> s.importing.skipped]

\* filename.endswith('.xlsx') or ... '.xls' or ... '.csv', on the lowered
\* name; a file is modelled by its name, its extension, whether pandas
\* parses it, and its rows
ValidExtension(file) == file.extension \in { ".xlsx", ".xls", ".csv" }

Files ==
    { [filename |-> f[1], extension |-> f[2], parses |-> p, rows |-> rows] :
        f \in { << "cases.csv", ".csv" >>, << "Cases.XLSX", ".xlsx" >>,
                << "cases.txt", ".txt" >> },
        p \in BOOLEAN, rows \in Datasets }

UploadFile(file) ==
    /\ pc = "idle"
    /\ pc' = "done"
    /\ call' = [fn |-> "upload_file", filename |-> file.filename]
    /\ IF ~ValidExtension(file)
       THEN /\ ret' = HTTPException(400, "Please upload a valid file")
            /\ UNCHANGED upload_info
       ELSE IF ~file.parses
       THEN /\ ret' = HTTPException(400, "Error parsing file")
            /\ UNCHANGED upload_info
       ELSE /\ upload_info' = Uploaded(file.filename, file.rows)
            /\ ret' = [status_code |-> 200, success |-> TRUE,
                       headers |-> ColumnNames, row_count |-> Len(file.rows)]
    /\ UNCHANGED << collection, trace, rebuild, historical_cases, importing >>

ImportUploadedDataset(mappings) ==
    /\ pc = "idle"
    /\ pc' = "done"
    /\ call' = [fn |-> "import_uploaded_dataset", mappings |-> mappings]
    /\ IF NoFileUploaded(upload_info)
       THEN /\ ret' = HTTPException(400, "No file uploaded")
            /\ UNCHANGED historical_cases
       ELSE IF ~AllMapped(mappings)
       THEN /\ ret' = HTTPException(400, "Please map all required fields")
            /\ UNCHANGED historical_cases
       ELSE LET r == import_dataset(historical_cases, upload_info.data)
            IN  /\ historical_cases' = r.historical_cases
                /\ ret' = IF r.imported_count = 0
                          THEN HTTPException(400,
                                   "Could not import any valid rows")
                          ELSE [status_code |-> 200, success |-> TRUE,
                                imported_count |-> r.imported_count,
                                skipped_rows |-> r.skipped,
                                headers |-> upload_info.headers]
    /\ UNCHANGED << collection, trace, rebuild, upload_info, importing >>

ClearData ==
    /\ pc = "idle"
    /\ pc' = "done"
    /\ call' = [fn |-> "clear_data"]
    /\ historical_cases' = clear_historical_cases
    /\ upload_info' = NoUpload
    /\ ret' = [status_code |-> 200, success |-> TRUE]
    /\ UNCHANGED << collection, trace, rebuild, importing >>

ResetData(pattern) ==
    /\ pc = "idle"
    /\ pc' = "done"
    /\ call' = [fn |-> "reset_data"]
    /\ LET cases == generate_synthetic_data(SyntheticCount, pattern)
       IN  /\ historical_cases' = set_historical_cases(cases)
           /\ ret' = [status_code |-> 200, success |-> TRUE,
                      count |-> Len(cases)]
    /\ upload_info' = NoUpload
    /\ UNCHANGED << collection, trace, rebuild, importing >>

ProcessApplication ==
    /\ pc = "idle"
    /\ pc' = "done"
    /\ call' = [fn |-> "process_application", k |-> DEFAULT_K]
    /\ ret' = IF get_case_count(historical_cases) = 0
              THEN HTTPException(400, "No historical data loaded")
              ELSE CreditDecisionResponse(
                       find_financial_twins(historical_cases, DEFAULT_K))
    /\ UNCHANGED << collection, trace, rebuild, historical_cases,
                    upload_info, importing >>

InitBackend ==
    /\ collection = NoCollection
    /\ pc = "idle"
    /\ call = NoCall
    /\ ret = NoRet
    /\ trace = <<>>
    /\ rebuild = NoRebuild
    /\ historical_cases \in
           { generate_synthetic_data(SyntheticCount, pattern) :
               pattern \in SyntheticPatterns }
    /\ upload_info = NoUpload
    /\ importing = NoImport

NextBackend ==
    \/ \E file \in Files : UploadFile(file)
    \/ \E mappings \in Mappings : ImportUploadedDataset(mappings)
    \/ ClearData
    \/ \E pattern \in SyntheticPatterns : ResetData(pattern)
    \/ ProcessApplication
    \/ Return

SpecBackend == InitBackend /\ [][NextBackend]_vars

\* ------------------------------------------------------------------ claims
FindTwinsDone == pc = "done" /\ call.fn = "find_twins"

AnalyzeTwinsDone == pc = "done" /\ call.fn = "analyze_twins"

MakeDecisionDone == pc = "done" /\ call.fn = "make_decision"

\* the neighbors the search of the finished find_twins call returned
Neighbors == SearchResults(call.application, collection, call.storeUp)

FlaggedInFirst20(results) ==
    Len(SelectSeq(SubSeq(results, 1, Min(20, Len(results))),
                  LAMBDA r : r.payload.is_fraud_suspect))

AverageAbove999(results) ==
    SumScores(results, 1, Len(results)) > 999 * Len(results)

FraudPath(results) ==
    /\ Len(results) >= 10
    /\ FlaggedInFirst20(results) >= 5 \/ AverageAbove999(results)

\* C1: with fewer than 10 neighbors find_twins returns ANOMALY_DETECTED with
\* action MANUAL_REVIEW_REQUIRED and confidence 0.0, whatever the outcomes,
\* scores and fraud flags of the neighbors; neither the fraud rule nor the
\* threshold policy decides such a request.
C1_AnomalyBelowTenNeighbors ==
    (FindTwinsDone /\ Len(Neighbors) < 10) =>
        /\ ~Raised(ret)
        /\ ret.decision = "ANOMALY_DETECTED"
        /\ ret.action = "MANUAL_REVIEW_REQUIRED"
        /\ ret.confidence = Frac(0, 1)
        /\ ~Has(ret, "is_fraud_suspect")

\* nine neighbors, five of them fraud suspects, and still an anomaly
C1_Witness ==
    /\ FindTwinsDone
    /\ Len(Neighbors) = 9
    /\ FlaggedInFirst20(Neighbors) >= 5
    /\ ret.decision = "ANOMALY_DETECTED"

\* C2: with at least 10 neighbors, and 5 or more fraud suspects among the
\* first 20 or an average similarity above 0.999, find_twins returns
\* REJECTED with confidence 1.0 and is_fraud_suspect true, whatever the
\* outcome mix; no other decision carries is_fraud_suspect.
C2_FraudRule ==
    FindTwinsDone =>
        IF FraudPath(Neighbors)
        THEN /\ ~Raised(ret)
             /\ ret.decision = "REJECTED"
             /\ ret.confidence = Frac(1000, 1)
             /\ Has(ret, "is_fraud_suspect")
             /\ ret.is_fraud_suspect = TRUE
        ELSE ~Has(ret, "is_fraud_suspect")

\* a cohort of successes only, rejected by the fraud rule
C2_Witness ==
    /\ FindTwinsDone
    /\ FraudPath(Neighbors)
    /\ \A i \in 1..Len(Neighbors) : Neighbors[i].payload.outcome = "success"
    /\ ret.decision = "REJECTED"

\* a rate of the make_decision specification, in basis points
BasisPoints(rate) == (rate.num * 10000) \div rate.den

ExpectedVerdict(success_rate, default_rate) ==
    LET s == BasisPoints(success_rate)
        d == BasisPoints(default_rate)
    IN  IF s >= 9900 /\ d < 500 THEN "APPROVED"
        ELSE IF s >= 9000 /\ d < 1000 THEN "APPROVED_WITH_CONDITIONS"
        ELSE IF s >= 8500 THEN "MANUAL_REVIEW"
        ELSE "REJECTED"

InSeq(x, seq) == \E i \in 1..Len(seq) : seq[i] = x

\* C4: for an APPROVED_WITH_CONDITIONS decision the reduced-amount condition
\* is attached iff default_rate > 0.05, and then recommended_amount is 75% of
\* the requested amount, otherwise the requested amount; the interest-premium
\* condition is attached iff late_rate > 0.10; the enhanced-monitoring
\* condition iff neither; the conditions list is never empty.
C4_Conditions ==
    (MakeDecisionDone /\ ~Raised(ret)
       /\ ret.decision = "APPROVED_WITH_CONDITIONS") =>
        LET reduce == BasisPoints(call.analysis.default_rate) > 500
            premium == BasisPoints(call.analysis.late_rate) > 1000
            requested == Get(call.application, "requested_amount", None)
        IN  /\ InSeq("REDUCE_AMOUNT_25", ret.conditions) <=> reduce
            /\ InSeq("INTEREST_PREMIUM", ret.conditions) <=> premium
            /\ InSeq("ENHANCED_MONITORING", ret.conditions)
                 <=> (~reduce /\ ~premium)
            /\ ret.conditions # <<>>
            /\ requested # None =>
                 IF reduce
                 THEN 4 * ret.recommended_amount = 3 * requested
                 ELSE ret.recommended_amount = requested

\* both conditions attached and the amount reduced to 75%
C4_Witness ==
    /\ MakeDecisionDone
    /\ ~Raised(ret)
    /\ ret.decision = "APPROVED_WITH_CONDITIONS"
    /\ ret.conditions = << "REDUCE_AMOUNT_25", "INTEREST_PREMIUM" >>
    /\ Get(call.application, "requested_amount", None) = 10000
    /\ ret.recommended_amount = 7500

\* C5: the confidence of every decision of find_twins lies in [0,1]: 0.0 for
\* ANOMALY_DETECTED, 1.0 on the fraud path, the average similarity of the
\* neighbors for the decisions of the threshold policy.
C5_ConfidenceInUnitInterval ==
    (FindTwinsDone /\ ~Raised(ret)) =>
        /\ ret.confidence.num >= 0
        /\ ret.confidence.num <= 1000 * ret.confidence.den
        /\ ret.decision = "ANOMALY_DETECTED" => ret.confidence.num = 0
        /\ Has(ret, "is_fraud_suspect") =>
               ret.confidence.num = 1000 * ret.confidence.den
        /\ (ret.decision # "ANOMALY_DETECTED" /\ ~Has(ret, "is_fraud_suspect")) =>
               ret.confidence.num * Len(Neighbors) =
                   SumScores(Neighbors, 1, Len(Neighbors)) * ret.confidence.den

\* C6: when the neighbor search fails (store unreachable or collection not
\* created) find_twins does not raise: it returns ANOMALY_DETECTED with
\* twins_found = 0.
C6_SearchFailureIsAnomaly ==
    (FindTwinsDone /\ (~call.storeUp \/ ~collection.exists)) =>
        /\ ~Raised(ret)
        /\ ret.decision = "ANOMALY_DETECTED"
        /\ ret.twins_found = 0

\* the store is down while the collection holds ten or more points
C6_Witness ==
    /\ FindTwinsDone
    /\ ~call.storeUp
    /\ Len(collection.points) >= 10
    /\ ret.decision = "ANOMALY_DETECTED"
    /\ ret.twins_found = 0

NumberWithOutcome(results, label) ==
    Len(SelectSeq(results, LAMBDA r : r.payload.outcome = label))

RateIs(rate, count, total) ==
    /\ rate.den > 0
    /\ rate.num * total = count * rate.den
    /\ 0 <= rate.num
    /\ rate.num <= rate.den

StatisticsFields ==
    { "total_twins", "success_count", "default_count", "late_count",
      "rejected_count", "success_rate", "default_rate", "late_rate",
      "avg_similarity", "top_twins" }

\* C8: analyze_twins of an empty list returns a statistics object with the
\* fields of the non-empty case, in which total_twins, the success, default,
\* late and rejected counts, the rates and the average similarity are 0 and
\* top_twins is empty.
C8_EmptyIsAllZero ==
    (AnalyzeTwinsDone /\ call.results = <<>>) =>
        /\ DOMAIN ret = StatisticsFields
        /\ ret.total_twins = 0
        /\ ret.success_count = 0
        /\ ret.default_count = 0
        /\ ret.late_count = 0
        /\ ret.rejected_count = 0
        /\ ret.success_rate.num = 0
        /\ ret.default_rate.num = 0
        /\ ret.late_rate.num = 0
        /\ ret.avg_similarity.num = 0
        /\ ret.top_twins = <<>>

HasComeback(results) ==
    \E i \in 1..Len(results) : results[i].payload.is_comeback_story

FirstComeback(results) ==
    LET i == CHOOSE k \in 1..Len(results) :
                 /\ results[k].payload.is_comeback_story
                 /\ \A j \in 1..(k - 1) : ~results[j].payload.is_comeback_story
    IN  results[i].payload

\* C9 as stated: every REJECTED decision of find_twins with a comeback-story
\* neighbor carries a roadmap with the FICO and DTI of the first such
\* neighbor, and no other verdict carries a roadmap.
C9_RoadmapOnEveryRejection ==
    (FindTwinsDone /\ ~Raised(ret)) =>
        /\ (ret.decision = "REJECTED" /\ HasComeback(Neighbors)) =>
              /\ Has(ret, "roadmap")
              /\ ret.roadmap.target_fico = FirstComeback(Neighbors).fico
              /\ ret.roadmap.target_dti = FirstComeback(Neighbors).dti
        /\ ret.decision # "REJECTED" => ~Has(ret, "roadmap")

\* C9 as amended: every REJECTED decision of the threshold policy (not of
\* the fraud rule) with a comeback-story neighbor carries a roadmap whose
\* target FICO is that of the first such neighbor in result order and whose
\* target DTI is that neighbor's DTI rounded to one decimal; no decision of
\* another verdict and no fraud rejection carries a roadmap.
C9_RoadmapOnPolicyRejection ==
    (FindTwinsDone /\ ~Raised(ret)) =>
        LET policyRejected ==
                ret.decision = "REJECTED" /\ ~Has(ret, "is_fraud_suspect")
        IN  /\ (policyRejected /\ HasComeback(Neighbors)) =>
                  /\ Has(ret, "roadmap")
                  /\ ret.roadmap.target_fico = FirstComeback(Neighbors).fico
                  /\ ret.roadmap.target_dti % 10 = 0
                  /\ ret.roadmap.target_dti - FirstComeback(Neighbors).dti <= 5
                  /\ FirstComeback(Neighbors).dti - ret.roadmap.target_dti <= 5
            /\ Has(ret, "roadmap") => (policyRejected /\ HasComeback(Neighbors))

\* two different comeback neighbors; the roadmap shows the first, its DTI
\* rounded
C9_Witness ==
    /\ FindTwinsDone
    /\ ~Raised(ret)
    /\ Has(ret, "roadmap")
    /\ \E i \in 1..Len(Neighbors) :
          /\ Neighbors[i].payload.is_comeback_story
          /\ Neighbors[i].payload.fico # FirstComeback(Neighbors).fico
    /\ ret.roadmap.target_fico = FirstComeback(Neighbors).fico
    /\ ret.roadmap.target_dti # FirstComeback(Neighbors).dti

SuccessAmountSum(results) ==
    LET successful == SelectSeq(results, LAMBDA r : r.payload.outcome = "success")
    IN  SumAmounts(successful, 1, Len(successful))

\* C10: find_twins attaches an alternative_offer iff the threshold policy
\* returned REJECTED, some neighbor has outcome success and the mean
\* requested amount of the success neighbors is strictly below 80% of the
\* applicant's requested amount; the offered amount is that mean rounded to
\* the nearest hundred.
C10_AlternativeOffer ==
    (FindTwinsDone /\ ~Raised(ret)) =>
        LET count == NumberWithOutcome(Neighbors, "success")
            sum == SuccessAmountSum(Neighbors)
            requested == Get(call.application, "requested_amount", 0)
            policyRejected ==
                ret.decision = "REJECTED" /\ ~Has(ret, "is_fraud_suspect")
        IN  /\ Has(ret, "alternative_offer") <=>
                  /\ policyRejected
                  /\ count > 0
                  /\ 10 * sum < 8 * requested * count
            /\ Has(ret, "alternative_offer") =>
                  /\ ret.alternative_offer.amount % 100 = 0
                  /\ (ret.alternative_offer.amount * count - sum) <= 50 * count
                  /\ (sum - ret.alternative_offer.amount * count) <= 50 * count

\* an offer whose amount differs from the mean it rounds
C10_Witness ==
    /\ FindTwinsDone
    /\ ~Raised(ret)
    /\ Has(ret, "alternative_offer")
    /\ ret.alternative_offer.amount * NumberWithOutcome(Neighbors, "success")
         # SuccessAmountSum(Neighbors)

\* C11: find_twins attaches the nudge iff the verdict is APPROVED or
\* APPROVED_WITH_CONDITIONS and the applicant's nb_previous_loans is 0 or
\* absent; the nudge is the same fixed message whatever the cohort, and no
\* MANUAL_REVIEW, REJECTED or ANOMALY_DETECTED decision carries one.
C11_Nudge ==
    (FindTwinsDone /\ ~Raised(ret)) =>
        LET approved == ret.decision \in { "APPROVED", "APPROVED_WITH_CONDITIONS" }
            noLoans == \/ ~Has(call.application, "nb_previous_loans")
                       \/ call.application.nb_previous_loans = 0
        IN  /\ Has(ret, "nudge") <=> (approved /\ noLoans)
            /\ Has(ret, "nudge") =>
                 ret.nudge = [title |-> "Build Your Legacy",
                              message |-> "UPGRADE_80_PERCENT"]

\* a conditional approval of an applicant without the field, nudged
C11_Witness ==
    /\ FindTwinsDone
    /\ ~Raised(ret)
    /\ ret.decision = "APPROVED_WITH_CONDITIONS"
    /\ ~Has(call.application, "nb_previous_loans")
    /\ Has(ret, "nudge")

\* the result without its explanation
WithoutExplanation(r) == [k \in DOMAIN r \ { "explanation" } |-> r[k]]

\* the template the verdict selects
TemplateOf(r) ==
    CASE r.decision = "APPROVED" ->
            IF r.analysis.rejected_count > 0
            THEN "TEMPLATE_APPROVED_FEW_REJECTED"
            ELSE "TEMPLATE_APPROVED"
      [] r.decision = "APPROVED_WITH_CONDITIONS" -> "TEMPLATE_APPROVED_WITH_CONDITIONS"
      [] r.decision = "REJECTED" -> "TEMPLATE_REJECTED"
      [] r.decision = "ANOMALY_DETECTED" -> "TEMPLATE_ANOMALY_DETECTED"
      [] r.decision = "MANUAL_REVIEW" -> "TEMPLATE_MANUAL_REVIEW"

\* C18: every decision find_twins returns carries a non-empty explanation;
\* when the narrative service gives nothing it is the template of the
\* verdict; the outcome of the narrative service changes nothing else of the
\* decision and never decides whether find_twins raises.
C18_ExplanationFallback ==
    FindTwinsDone =>
        /\ ~Raised(ret) =>
             /\ Has(ret, "explanation")
             /\ ret.explanation \notin { "", "None" }
             /\ call.mode \in { "unconfigured", "fails" } =>
                  ret.explanation = TemplateOf(ret)
        /\ \A other \in { "unconfigured", "fails", "answers", "blank" } :
             LET r == find_twins(call.application, collection, call.storeUp, other)
             IN  /\ Raised(r) <=> Raised(ret)
                 /\ WithoutExplanation(r) = WithoutExplanation(ret)

\* a policy rejection explained by its template because the service failed
C18_Witness ==
    /\ FindTwinsDone
    /\ call.mode = "fails"
    /\ ~Raised(ret)
    /\ ret.decision = "REJECTED"
    /\ ~Has(ret, "is_fraud_suspect")
    /\ ret.explanation = "TEMPLATE_REJECTED"

\* C19: every decision find_twins returns, whatever its verdict, contains
\* the cohort statistics (analysis) computed from the neighbors the decision
\* was derived from.
C19_AnalysisEmbedded ==
    (FindTwinsDone /\ ~Raised(ret)) =>
        /\ Has(ret, "analysis")
        /\ ret.analysis = analyze_twins(Neighbors)

FindFinancialTwinsDone == pc = "done" /\ call.fn = "find_financial_twins"

\* the positions of the corpus whose cases the result holds, in result order
PositionOf(twin) ==
    CHOOSE i \in 1..Len(historical_cases) : historical_cases[i].id = twin.id

\* C12: find_financial_twins returns min(k, corpus size) twins by
\* non-increasing similarity; twins of equal similarity keep their corpus
\* order; every twin is a corpus case with that case's similarity; no case
\* left out is strictly more similar than a returned one; an empty corpus
\* gives an empty list.
C12_TopKStableOrder ==
    FindFinancialTwinsDone =>
        LET twins == ret.twins
            n == Len(historical_cases)
            k == call.k
        IN  /\ Len(twins) = IF k < n THEN k ELSE n
            /\ \A i \in 1..Len(twins) - 1 :
                 twins[i].similarity >= twins[i + 1].similarity
            /\ \A i \in 1..Len(twins) :
                 \E j \in 1..n :
                    /\ historical_cases[j].id = twins[i].id
                    /\ historical_cases[j].similarity = twins[i].similarity
            /\ \A i, j \in 1..Len(twins) :
                 i # j => twins[i].id # twins[j].id
            /\ \A i, j \in 1..Len(twins) :
                 (i < j /\ twins[i].similarity = twins[j].similarity) =>
                     PositionOf(twins[i]) < PositionOf(twins[j])
            /\ \A j \in 1..n :
                 (\A i \in 1..Len(twins) : twins[i].id # historical_cases[j].id) =>
                     \A i \in 1..Len(twins) :
                        historical_cases[j].similarity <= twins[i].similarity
            /\ n = 0 => twins = <<>>

\* a truncated result with a tie inside it and a less similar case before
\* the returned ones in the corpus
C12_Witness ==
    /\ FindFinancialTwinsDone
    /\ call.k = 2
    /\ Len(historical_cases) = 3
    /\ Len(ret.twins) = 2
    /\ ret.twins[1].similarity = ret.twins[2].similarity
    /\ ret.twins[1].id = 2
    /\ ret.twins[2].id = 3

CalculateAnomalyScoreDone == pc = "done" /\ call.fn = "calculate_anomaly_score"

TotalSimilarity(twins) ==
    LET RECURSIVE Total(_)
        Total(i) == IF i = 0 THEN 0 ELSE twins[i].similarity + Total(i - 1)
    IN  Total(Len(twins))

\* C20: calculate_anomaly_score of a similarity-sorted twin list lies in
\* [0,1]; it is 1 for an empty list and otherwise
\* 0.4*(1 - top) + 0.3*decay + 0.3*(1 - mean) clamped to [0,1], where decay is
\* (1st - 10th) / 1st with at least 10 twins and a positive top similarity
\* and 0 otherwise. With similarities in thousandths the unclamped value is
\* weighted / (10000 * n * top), or weighted / (10000 * n) without decay.
C20_AnomalyScore ==
    CalculateAnomalyScoreDone =>
        LET twins == call.twins
            score == ret.anomaly_score
            n == Len(twins)
            top == twins[1].similarity
            withDecay == n >= 10 /\ top > 0
            weighted ==
                IF withDecay
                THEN 4 * (1000 - top) * n * top
                       + 3 * 1000 * (top - twins[10].similarity) * n
                       + 3 * (1000 * n - TotalSimilarity(twins)) * top
                ELSE 4 * (1000 - top) * n
                       + 3 * (1000 * n - TotalSimilarity(twins))
            scale == IF withDecay THEN 10000 * n * top ELSE 10000 * n
        IN  /\ score.den > 0
            /\ score.num >= 0
            /\ score.num <= score.den
            /\ n = 0 => score.num = score.den
            /\ n > 0 =>
                 IF weighted < 0 THEN score.num = 0
                 ELSE IF weighted > scale THEN score.num = score.den
                 ELSE score.num = weighted /\ score.den = scale

\* ten twins with a decay between the first and the tenth, unclamped
C20_Witness ==
    /\ CalculateAnomalyScoreDone
    /\ Len(call.twins) >= 10
    /\ call.twins[1].similarity = 1000
    /\ call.twins[10].similarity = 500
    /\ ret.anomaly_score.num > 0
    /\ ret.anomaly_score.num < ret.anomaly_score.den

\* a cohort of negative similarities, where the weighted sum exceeds 1
C20_WitnessClamped ==
    /\ CalculateAnomalyScoreDone
    /\ Len(call.twins) > 0
    /\ call.twins[1].similarity < 0
    /\ ret.anomaly_score.num = ret.anomaly_score.den

\* a step that performs the store function fn
StoreStep(fn) == pc = "idle" /\ pc' = "done" /\ call'.fn = fn

\* C13: upsert_vector and search_similar given a vector whose length is not
\* VECTOR_SIZE raise ValueError before any call to the store client, and
\* the collection is what it was before the call.
C13_LengthMismatch ==
    [][ /\ (StoreStep("upsert_vector") /\ call'.point.vector.len # VECTOR_SIZE) =>
             /\ ret'.raised = "ValueError"
             /\ trace' = <<>>
             /\ collection' = collection
        /\ (StoreStep("search_similar") /\ call'.vector.len # VECTOR_SIZE) =>
             /\ ret'.raised = "ValueError"
             /\ trace' = <<>>
             /\ collection' = collection ]_vars

\* a short vector refused by upsert_vector with a reachable, filled store
C13_Witness ==
    /\ pc = "done"
    /\ call.fn = "upsert_vector"
    /\ call.storeUp
    /\ call.point.id >= 0
    /\ call.point.vector.len = VECTOR_SIZE - 1
    /\ ret.raised = "ValueError"
    /\ trace = <<>>
    /\ Len(collection.points) = 2

\* a long vector refused by search_similar
C13_WitnessSearch ==
    /\ pc = "done"
    /\ call.fn = "search_similar"
    /\ call.storeUp
    /\ call.top_k = TOP_K
    /\ call.vector.len = VECTOR_SIZE + 1
    /\ ret.raised = "ValueError"
    /\ collection.points # <<>>

\* the points a collection holds under an id (none or one)
PointsWithId(coll, id) ==
    { coll.points[i] : i \in { j \in 1..Len(coll.points) : coll.points[j].id = id } }

InvalidPoint(d) == d.id < 0 \/ d.vector.len # 50

\* the number of points in the chunks before the first chunk that holds an
\* invalid point; all of them when no point is invalid
CommittedCount(points_data, batch_size) ==
    LET bad == { i \in 1..Len(points_data) : InvalidPoint(points_data[i]) }
    IN  IF bad = {} THEN Len(points_data)
        ELSE LET first == CHOOSE i \in bad : \A j \in bad : i <= j
             IN  ((first - 1) \div batch_size) * batch_size

\* C14: batch_upsert_vectors writes the points in consecutive chunks of
\* batch_size in list order. With a reachable store and an existing
\* collection: when no point is invalid it returns the number of points
\* supplied, makes one upsert per chunk and every supplied point is stored
\* (an id supplied twice holds the point supplied last); when a chunk holds
\* an invalid point the call raises, the chunks before it are stored, and
\* no point of that chunk or of a later one is: every other id holds what
\* it held before the call.
C14_BatchUpsert ==
    [][ (StoreStep("batch_upsert_vectors") /\ call'.storeUp /\ collection.exists) =>
          LET points_data == call'.points_data
              batch_size == call'.batch_size
              committed == CommittedCount(points_data, batch_size)
              ids == { points_data[i].id : i \in 1..Len(points_data) } \cup
                     { collection.points[i].id : i \in 1..Len(collection.points) }
          IN  /\ committed = Len(points_data) =>
                   /\ ret'.raised = "none"
                   /\ ret'.result = Len(points_data)
                   /\ Len(trace') * batch_size >= Len(points_data)
                   /\ (Len(trace') - 1) * batch_size < Len(points_data)
              /\ committed < Len(points_data) =>
                   /\ ret'.raised # "none"
                   /\ Len(trace') * batch_size = committed
              /\ collection'.exists
              /\ \A i, j \in 1..Len(collection'.points) :
                   i # j => collection'.points[i].id # collection'.points[j].id
              /\ \A id \in ids :
                   LET written == { i \in 1..committed : points_data[i].id = id }
                   IN  IF written = {}
                       THEN PointsWithId(collection', id) = PointsWithId(collection, id)
                       ELSE LET last == CHOOSE i \in written : \A j \in written : j <= i
                            IN  PointsWithId(collection', id) =
                                  { [id |-> id,
                                     payload |-> points_data[last].payload,
                                     score |-> points_data[last].vector.score] } ]_vars

\* chunks of one point: the first stored, the second invalid, the third,
\* valid, not stored
C14_Witness ==
    /\ pc = "done"
    /\ call.fn = "batch_upsert_vectors"
    /\ call.storeUp
    /\ call.batch_size = 1
    /\ Len(call.points_data) = 3
    /\ call.points_data[1].id = 1
    /\ call.points_data[2].id = -1
    /\ call.points_data[3].id = 2
    /\ ret.raised = "Exception"
    /\ Len(trace) = 1
    /\ Len(collection.points) = 1
    /\ collection.points[1].id = 1
    /\ collection.points[1].payload = call.points_data[1].payload

\* a list of three points, one id supplied twice, stored in two chunks
C14_WitnessSuccess ==
    /\ pc = "done"
    /\ call.fn = "batch_upsert_vectors"
    /\ call.batch_size = 2
    /\ ret.raised = "none"
    /\ ret.result = 3
    /\ Len(trace) = 2
    /\ Len(collection.points) = 2

\* C15: with a reachable store, delete_collection removes the collection
\* and returns True when it exists and returns False changing nothing when
\* it does not, so a second call returns False and leaves the state of the
\* first; create_collection_if_not_exists returns True exactly when it
\* creates the (empty) collection and returns False leaving the collection
\* and its points as they are when it exists.
C15_DeleteCreateIdempotent ==
    [][ /\ (StoreStep("delete_collection") /\ call'.storeUp) =>
             /\ ret'.raised = "none"
             /\ ret'.result = collection.exists
             /\ ~collection'.exists
             /\ collection'.points = <<>>
             /\ ~collection.exists => collection' = collection
             /\ LET again == delete_collection(collection', TRUE)
                IN  /\ again.raised = "none"
                    /\ again.result = FALSE
                    /\ again.store = collection'
        /\ (StoreStep("create_collection_if_not_exists") /\ call'.storeUp) =>
             /\ ret'.raised = "none"
             /\ ret'.result = ~collection.exists
             /\ collection'.exists
             /\ collection.exists => collection' = collection
             /\ ~collection.exists => collection'.points = <<>> ]_vars

\* a collection holding points has just been deleted
C15_Witness ==
    /\ pc = "done"
    /\ call.fn = "delete_collection"
    /\ ret.raised = "none"
    /\ ret.result = TRUE
    /\ collection = [exists |-> FALSE, points |-> <<>>]

\* create_collection_if_not_exists on a collection that holds points
C15_WitnessCreate ==
    /\ pc = "done"
    /\ call.fn = "create_collection_if_not_exists"
    /\ ret.raised = "none"
    /\ ret.result = FALSE
    /\ Len(collection.points) = 2

\* C16: a find_twins evaluation that runs while build_qdrant_vectors
\* rebuilds the collection never decides from a partly rebuilt collection:
\* with a reachable store its decision is the one the complete corpus of
\* before the rebuild gives or the one the complete new corpus gives.
C16_NoPartialCorpus ==
    (FindTwinsDone /\ call.storeUp) =>
        \/ ret = find_twins(call.application, Built(OldPointsData), TRUE, call.mode)
        \/ ret = find_twins(call.application, Built(NewPointsData), TRUE, call.mode)

EvaluateDone == pc = "done" /\ call.fn = "evaluate_application"

Occurrences(calls, name) ==
    Cardinality({ i \in 1..Len(calls) : calls[i] = name })

\* the required fields the body lacks, in the order of the required list; a
\* null body lacks them all
AbsentFields(body) ==
    SelectSeq(<< "requested_amount", "annual_income_snapshot", "dti_snapshot",
                 "fico_snapshot" >>,
              LAMBDA f : f \notin DOMAIN body)

\* C17: /api/evaluate answers 400 with the list of missing fields, without
\* invoking find_twins, whenever one of the four required fields is absent
\* from the body; when all four are present it invokes find_twins exactly
\* once, and an exception raised by the evaluation is answered as a 500
\* with an error kind and a detail string.
C17_EvaluateValidation ==
    EvaluateDone =>
        /\ AbsentFields(call.new_app) # <<>> =>
             /\ ret.status = 400
             /\ ret.body.missing_fields = AbsentFields(call.new_app)
             /\ Occurrences(trace, "find_twins") = 0
        /\ AbsentFields(call.new_app) = <<>> =>
             /\ Occurrences(trace, "find_twins") = 1
             /\ ret.status \in { 200, 500 }
             /\ ret.status = 500 <=>
                  Raised(find_twins(call.new_app, collection, call.storeUp, call.mode))
        /\ ret.status = 500 =>
             /\ ret.body.error = "Internal server error"
             /\ Has(ret.body, "details")

CreateApplicationVectorDone ==
    pc = "done" /\ call.fn = "create_application_vector"

\* C21: create_application_vector returns exactly vector_size entries for
\* every record and every vector_size >= 0: the 22 features followed by
\* zeros, or the first vector_size features; the result depends on the
\* record and the size only; and a vector encoded with VECTOR_SIZE has the
\* length upsert_vector, batch_upsert_vectors and search_similar require.
C21_VectorLength ==
    CreateApplicationVectorDone =>
        LET vector == ret.vector
            n == call.vector_size
        IN  /\ Len(vector) = n
            /\ \A i \in 1..n :
                 IF i <= 22 THEN vector[i] = Features(call.application)[i]
                 ELSE vector[i] = [num |-> 0, den |-> 1]
            /\ Len(Features(call.application)) = 22
            /\ vector = create_application_vector(call.application, n)
            /\ n = 50 => Len(vector) = VECTOR_SIZE

\* a record without an amount and with a null credit score, padded to 50
C21_Witness ==
    /\ CreateApplicationVectorDone
    /\ call.vector_size = VECTOR_SIZE
    /\ ~Has(call.application, "requested_amount")
    /\ Has(call.application, "fico_snapshot")
    /\ call.application.fico_snapshot = None
    /\ Len(ret.vector) = 50
    /\ ret.vector[7] = [num |-> 650, den |-> 850]
    /\ ret.vector[50] = [num |-> 0, den |-> 1]

\* a size below the number of features
C21_WitnessTruncated ==
    /\ CreateApplicationVectorDone
    /\ call.vector_size = 21
    /\ Len(ret.vector) = 21

\* C22: make_decision returns APPROVED when the success rate is >= 85% and
\* the default rate < 5%, APPROVED_WITH_CONDITIONS when 65% <= success rate
\* < 85%, REJECTED when the success rate is < 65% or the default rate > 25%,
\* and MANUAL_REVIEW otherwise (the rules of its docstring; where two of
\* them overlap either verdict is accepted).
C22_DocstringRules ==
    (MakeDecisionDone /\ ~Raised(ret)) =>
        LET sr == call.analysis.success_rate
            dr == call.analysis.default_rate
            approved == sr.num * 100 >= 85 * sr.den /\ dr.num * 100 < 5 * dr.den
            conditional == sr.num * 100 >= 65 * sr.den /\ sr.num * 100 < 85 * sr.den
            rejected == sr.num * 100 < 65 * sr.den \/ dr.num * 100 > 25 * dr.den
        IN  /\ (approved /\ ~rejected) => ret.decision = "APPROVED"
            /\ (conditional /\ ~rejected) => ret.decision = "APPROVED_WITH_CONDITIONS"
            /\ (rejected /\ ~approved /\ ~conditional) => ret.decision = "REJECTED"
            /\ (~approved /\ ~conditional /\ ~rejected) => ret.decision = "MANUAL_REVIEW"

\* C23: batch_upsert_vectors raises ValueError, the validation error that a
\* caller can tell from a store failure, whenever a supplied point is
\* invalid: a negative point id or a vector whose length is not VECTOR_SIZE.
C23_BatchValidationError ==
    (/\ pc = "done"
     /\ call.fn = "batch_upsert_vectors"
     /\ \E i \in 1..Len(call.points_data) : InvalidPoint(call.points_data[i]))
        => ret.raised = "ValueError"
\* The cases of the rows of data that convert, in the order of the rows,
\* each numbered by the position of its row.
ConvertedRows(data) ==
    LET kept == { i \in 1..Len(data) : ~data[i].raises }
        Nth(j) == CHOOSE i \in kept :
                      Cardinality({ m \in kept : m < i }) = j - 1
    IN  [j \in 1..Cardinality(kept) |->
            [id |-> Nth(j), similarity |-> data[Nth(j)].similarity]]

\* C24: every step that changes the corpus of the in-process engine installs
\* a whole corpus at once: the empty corpus, a synthetic corpus, or all
\* the converted rows of an import whose loop has finished, never a part of
\* them, so that after an import the case count is the number of imported
\* rows; and an evaluation interleaved with these steps computes all its
\* twins from the corpus the global holds at one step.
C24_WholeCorpusSwap ==
    [][ /\ historical_cases' # historical_cases =>
              \/ historical_cases' = <<>>
              \/ \E pattern \in SyntheticPatterns :
                     /\ Len(historical_cases') = SyntheticCount
                     /\ \A i \in 1..SyntheticCount :
                            historical_cases'[i].similarity =
                                pattern[((i - 1) % Len(pattern)) + 1]
              \/ /\ importing.pc = "rows"
                 /\ importing.idx = Len(importing.data)
                 /\ historical_cases' = ConvertedRows(importing.data)
        /\ importing.pc = "rows" /\ importing'.pc = "off" =>
              Len(historical_cases') =
                  Cardinality({ i \in 1..Len(importing.data) :
                                  ~importing.data[i].raises })
        /\ pc = "find_financial_twins" /\ pc' = "done" =>
              \E sorted \in { SortBySimilarity(
                                [i \in 1..Len(historical_cases) |->
                                    << historical_cases[i],
                                       historical_cases[i].similarity >>]) } :
                  /\ Len(ret'.twins) = Min(DEFAULT_K, Len(sorted))
                  /\ \A i \in 1..Len(ret'.twins) :
                         /\ ret'.twins[i].id = sorted[i][1].id
                         /\ ret'.twins[i].similarity = sorted[i][2] ]_vars

\* An evaluation returned its twins while an import had converted a part of
\* its rows.
C24_Witness ==
    /\ pc = "done"
    /\ call.fn = "process_application"
    /\ ret.status_code = 200
    /\ ret.twins # <<>>
    /\ importing.pc = "rows"
    /\ importing.imported_cases # <<>>
    /\ importing.idx < Len(importing.data)
\* C25: in every statistics object analyze_twins computes, a success rate
\* of at least 0.90 leaves a late rate of at most 0.10 and a success rate of
\* at least 0.99 leaves a default rate below 0.05, the outcome counts being
\* disjoint parts of the total; so no decision find_twins returns carries
\* the interest-rate premium.
C25_NoInterestPremium ==
    /\ AnalyzeTwinsDone =>
          /\ ret.success_count + ret.default_count + ret.late_count
                 <= ret.total_twins
          /\ 10 * ret.success_rate.num >= 9 * ret.success_rate.den =>
                 10 * ret.late_rate.num <= ret.late_rate.den
          /\ 100 * ret.success_rate.num >= 99 * ret.success_rate.den =>
                 20 * ret.default_rate.num < ret.default_rate.den
    /\ (FindTwinsDone /\ ~Raised(ret) /\ Has(ret, "conditions")) =>
          \A i \in 1..Len(ret.conditions) :
              ret.conditions[i] # "INTEREST_PREMIUM"

\* a conditional approval by find_twins of a cohort with late payers, the
\* late rate at the premium's threshold
C25_Witness ==
    /\ FindTwinsDone
    /\ ~Raised(ret)
    /\ ret.decision = "APPROVED_WITH_CONDITIONS"
    /\ ret.analysis.late_count > 0
    /\ 10 * ret.analysis.late_count = ret.analysis.total_twins

\* statistics with a success rate of at least 0.90 and late payers
C25_WitnessStatistics ==
    /\ AnalyzeTwinsDone
    /\ ret.total_twins > 0
    /\ 10 * ret.success_count >= 9 * ret.total_twins
    /\ ret.late_count > 0
\* C26: find_twins returns a decision without raising for every list of at
\* least 10 neighbors whose payloads carry an outcome label while fico, dti
\* or requested_amount is null, also when such a neighbor is the first
\* comeback-story neighbor of a REJECTED decision (the applicant's own
\* requested_amount being absent or a number).
C26_NullFieldsNoRaise ==
    ( /\ FindTwinsDone
      /\ Get(call.application, "requested_amount", 0) # None
      /\ Len(Neighbors) >= 10
      /\ \A i \in 1..Len(Neighbors) :
             Neighbors[i].payload.outcome \in
                 { "success", "default", "late_payments", "rejected",
                   "unknown" } )
        => /\ ~Raised(ret)
           /\ Has(ret, "decision")
MapCategoricalDone == pc = "done" /\ call.fn = "map_categorical"

\* C27: map_categorical maps every member of EMPLOYMENT_TYPES, SECTORS,
\* PURPOSES and REGIONS to itself, so that a category which is already a
\* valid option is encoded by create_feature_vector under that option.
C27_OptionsMapToThemselves ==
    ( /\ MapCategoricalDone
      /\ \E i \in 1..Len(call.valid_options) :
             call.valid_options[i] = call.value )
        => /\ ret.option = call.value
           /\ \E i \in 1..Len(call.valid_options) :
                  /\ call.valid_options[i] = call.value
                  /\ ret.entry.num = i - 1
                  /\ ret.entry.den = Len(call.valid_options)
\* C28: whenever find_twins attaches an alternative_offer to the decision
\* for a positive requested amount, the offered amount, rounded to the
\* hundred, is greater than 0 and strictly less than the requested amount.
C28_OfferBelowRequest ==
    ( /\ FindTwinsDone
      /\ ~Raised(ret)
      /\ Has(ret, "alternative_offer")
      /\ call.application.requested_amount > 0 )
        => /\ ret.alternative_offer.amount > 0
           /\ ret.alternative_offer.amount < call.application.requested_amount
ImportRequestDone == pc = "done" /\ call.fn = "import_uploaded_dataset"

C30_RequestSequences ==
    /\ upload_info.data = <<>>
    /\ [][ LET served(fn) == pc = "idle" /\ pc' = "done" /\ call'.fn = fn
           IN  /\ (upload_info'.data # <<>> /\ upload_info'.data # upload_info.data)
                     => /\ served("upload_file")
                        /\ ret'.status_code = 200
                        /\ ret'.row_count >= 1
                        /\ ret'.row_count = Len(upload_info'.data)
               /\ (served("upload_file") /\ ret'.status_code # 200)
                     => upload_info' = upload_info
               /\ (served("clear_data") \/ served("reset_data"))
                     => upload_info'.data = <<>>
               /\ served("import_uploaded_dataset")
                     => /\ historical_cases' # historical_cases
                              => upload_info.data # <<>>
                        /\ upload_info.data = <<>>
                              => /\ ret'.status_code = 400
                                 /\ historical_cases' = historical_cases
               /\ historical_cases' # historical_cases
                     => \/ served("import_uploaded_dataset")
                        \/ served("clear_data")
                        \/ served("reset_data")
               /\ served("clear_data") => Len(historical_cases') = 0
               /\ served("reset_data")
                     => /\ Len(historical_cases') = SyntheticCount
                        /\ ret'.count = SyntheticCount
               /\ (served("process_application") /\ Len(historical_cases) = 0)
                     => ret'.status_code = 400 ]_vars

\* an import replaced the emptied corpus by the rows of an upload
C30_Witness ==
    /\ ImportRequestDone
    /\ ret.status_code = 200
    /\ ret.imported_count = Len(historical_cases)
    /\ Len(historical_cases) < SyntheticCount
    /\ upload_info.data # <<>>

\* an import refused after clear-data: no rows are kept, the corpus is empty
C30_WitnessRefused ==
    /\ ImportRequestDone
    /\ ret.status_code = 400
    /\ upload_info = NoUpload
    /\ historical_cases = <<>>

\* process-application refused after clear-data
C30_WitnessCleared ==
    /\ pc = "done"
    /\ call.fn = "process_application"
    /\ ret.status_code = 400

====
